---- MODULE Spec2Model ----
(***************************************************************************)
(* State-machine model of the college voice assistant:                    *)
(*   - the Express routes of registerRoutes (src/unnamed/part_001),       *)
(*   - the in-memory storage MemStorage (src/server/index.ts),            *)
(*   - the pronunciation-correction table                                 *)
(*     (src/server/pronunciation-corrections.ts),                         *)
(*   - the speech-recognition hook useVoice of the client                 *)
(*     (src/client/src/hooks/use-voice.tsx).                              *)
(* A JavaScript string is a sequence of one-character strings, so that    *)
(* toLowerCase, includes, trim and the regular-expression replacements    *)
(* are computed character by character.  A fixed literal of the source    *)
(* that is only copied around (a canned reply, an error code) is a        *)
(* one-element sequence holding the literal.                              *)
(* An async handler is cut at the awaits of its external calls (fetch,    *)
(* reading a body): each of them settles in an action of its own whose    *)
(* outcome is chosen by the environment.  The awaits of the storage       *)
(* resolve at once and do not cut a handler.                              *)
(***************************************************************************)
EXTENDS Integers, Sequences, FiniteSets, TLC

VARIABLES
    env,                        \* process.env: the provider API keys
    pronunciationCorrections,   \* the exported correction table, in insertion order
    users,                      \* MemStorage.users
    chatMessages,               \* MemStorage.chatMessages (an array, in array order)
    collegeInfo,                \* MemStorage.collegeInfo (an array, in array order)
    files,                      \* the two bundled JSON files as found at startup
    now,                        \* the clock read by new Date()
    tts,                        \* the POST /api/tts requests, by request number
    ask,                        \* the POST /api/ask requests, by request number
    httpResp,                   \* the response a single-step GET handler sent in the latest step
    window,                     \* useVoice: what the browser offers for speech recognition
    phase,                      \* useVoice: rendered, mounted (effect done) or unmounted
    isListening,                \* useVoice: isListening as of the latest render
    transcript,                 \* useVoice: transcript as of the latest render
    recognition,                \* useVoice: recognition as of the latest render
    pending,                    \* useVoice: the state updates queued since the latest render
    recognizer,                 \* useVoice: the state of the SpeechRecognition object
    called                      \* useVoice: the latest operation and its calls of the recognizer

serverVars == <<env, pronunciationCorrections, users, chatMessages, collegeInfo, files,
                now, tts, ask, httpResp>>

hookVars == <<window, phase, isListening, transcript, recognition, pending, recognizer,
              called>>

vars == <<serverVars, hookVars>>

storeVars == <<pronunciationCorrections, users, chatMessages, collegeInfo>>

-----------------------------------------------------------------------------
(* Bounds of the model *)

MaxRequests == 1
MaxDirectCalls == 1
MaxClock == 1
MaxMessages == 2
MaxInFlight == 2

\* no single-step handler responded in the latest step
NoResponse == [route |-> "none", status |-> 0, body |-> <<>>]

\* the requests the server handles at a time: a slot holds one POST /api/tts or
\* one POST /api/ask request from its arrival until its response is delivered
ReqIds == 1..MaxRequests

\* the slots of the server; the requests of slots 1..MaxInFlight overlap where
\* the specification lets them
Slots == 1..MaxInFlight

-----------------------------------------------------------------------------
(* JavaScript strings as sequences of characters *)

Undefined == "<undefined>"

Min(S) == CHOOSE x \in S : \A y \in S : x <= y

\* F at the value of x: x is computed once, before F is applied to it, as the
\* source computes the value of a variable before it goes on
With(x, F(_)) == CHOOSE r \in {F(v) : v \in {x}} : TRUE

UpperChars == <<"A","B","C","D","E","F","G","H","I","J","K","L","M",
                "N","O","P","Q","R","S","T","U","V","W","X","Y","Z">>
LowerChars == <<"a","b","c","d","e","f","g","h","i","j","k","l","m",
                "n","o","p","q","r","s","t","u","v","w","x","y","z">>
Digits == {"0","1","2","3","4","5","6","7","8","9"}

UpperSet == {UpperChars[i] : i \in 1..Len(UpperChars)}
LowerSet == {LowerChars[i] : i \in 1..Len(LowerChars)}

IsUpper(c) == c \in UpperSet
IsLower(c) == c \in LowerSet

LowerChar(c) ==
    IF IsUpper(c)
    THEN LowerChars[CHOOSE i \in 1..Len(UpperChars) : UpperChars[i] = c]
    ELSE c

toLowerCase(s) == [i \in 1..Len(s) |-> LowerChar(s[i])]

\* \s of a JavaScript regular expression, and the characters trim() removes
IsSpace(c) == c \in {" ", "\t", "\n", "\r"}

\* a line terminator: what "." of a regular expression does not match
IsNewline(c) == c \in {"\n", "\r"}

\* \w of a JavaScript regular expression
WordChars == UpperSet \cup LowerSet \cup Digits \cup {"_"}

IsWordChar(c) == c \in WordChars

\* String.prototype.includes
includes(s, w) ==
    \E i \in 0..(Len(s) - Len(w)) : \A k \in 1..Len(w) : s[i + k] = w[k]

\* String.prototype.substring(a, b) with 0 <= a <= b
substring(s, a, b) ==
    LET e == IF b < Len(s) THEN b ELSE Len(s)
    IN  IF a >= e THEN <<>> ELSE [i \in 1..(e - a) |-> s[a + i]]

\* the indices of the characters of s that are not whitespace
Inked(s) == {i \in 1..Len(s) : ~IsSpace(s[i])}

trimStart(s) ==
    IF Inked(s) = {} THEN <<>>
    ELSE SubSeq(s, CHOOSE i \in Inked(s) : \A j \in 1..(i - 1) : IsSpace(s[j]), Len(s))

trimEnd(s) ==
    IF Inked(s) = {} THEN <<>>
    ELSE SubSeq(s, 1, CHOOSE i \in Inked(s) : \A j \in (i + 1)..Len(s) : IsSpace(s[j]))

\* String.prototype.trim
trim(s) == With(trimStart(s), trimEnd)


-----------------------------------------------------------------------------
(* cleanTextForSpeech: the chain of replace() calls of POST /api/tts *)

\* the index after the run of characters of set that starts at index i
RunEnd(s, i, set) ==
    Min({j \in i..(Len(s) + 1) : j = Len(s) + 1 \/ s[j] \notin set})

\* the first index from i on at which a match starts, Len(s) + 1 if there is
\* none: a global replace copies the characters before it
FirstMatch(s, i, Starts(_)) ==
    Min({p \in i..Len(s) : Starts(p)} \cup {Len(s) + 1})

\* whether the literal d stands in s at index i
MatchAt(s, i, d) ==
    /\ i + Len(d) - 1 <= Len(s)
    /\ \A k \in 1..Len(d) : s[i + k - 1] = d[k]

NoNewline(s, a, b) == \A k \in a..b : ~IsNewline(s[k])

SpaceChars == {" ", "\t", "\n", "\r"}

\* .replace(/\|/g, ' ')
replacePipes(s) == [i \in 1..Len(s) |-> IF s[i] = "|" THEN " " ELSE s[i]]

\* .replace(/---+/g, ' ')
RECURSIVE replaceRulesFrom(_, _)
replaceRulesFrom(s, i) ==
    LET Rule(p) == s[p] = "-" /\ RunEnd(s, p, {"-"}) - p >= 3
        Rest(p) ==
            IF p > Len(s) THEN SubSeq(s, i, Len(s))
            ELSE SubSeq(s, i, p - 1) \o <<" ">>
                     \o With(RunEnd(s, p, {"-"}), LAMBDA e : replaceRulesFrom(s, e))
    IN  With(FirstMatch(s, i, Rule), Rest)

\* .replace(/#{1,6}\s+/g, '')
RECURSIVE removeHeadingsFrom(_, _)
removeHeadingsFrom(s, i) ==
    LET HashesEnd(p) == RunEnd(s, p, {"#"})
        HeadingEnd(p) == IF HashesEnd(p) <= Len(s)
                         THEN RunEnd(s, HashesEnd(p), SpaceChars)
                         ELSE HashesEnd(p)
        Heading(p) == /\ s[p] = "#"
                      /\ HashesEnd(p) - p <= 6
                      /\ HeadingEnd(p) > HashesEnd(p)
        Rest(p) ==
            IF p > Len(s) THEN SubSeq(s, i, Len(s))
            ELSE SubSeq(s, i, p - 1)
                     \o With(HeadingEnd(p), LAMBDA e : removeHeadingsFrom(s, e))
    IN  With(FirstMatch(s, i, Heading), Rest)

\* the closing delimiters a lazy (.*?) can stop at, for an opening d at i
Closings(s, i, d) ==
    {j \in (i + Len(d))..Len(s) :
        MatchAt(s, j, d) /\ NoNewline(s, i + Len(d), j - 1)}

\* .replace(/D(.*?)D/g, '$1') for a literal delimiter D: ** or * or a backquote
RECURSIVE unwrapFrom(_, _, _)
unwrapFrom(s, i, d) ==
    LET Wrapped(p) == MatchAt(s, p, d) /\ Closings(s, p, d) # {}
        Rest(p) ==
            IF p > Len(s) THEN SubSeq(s, i, Len(s))
            ELSE With(Min(Closings(s, p, d)),
                      LAMBDA j : SubSeq(s, i, p - 1) \o SubSeq(s, p + Len(d), j - 1)
                                     \o unwrapFrom(s, j + Len(d), d))
    IN  With(FirstMatch(s, i, Wrapped), Rest)

\* the ends k of "](...)" for a "[" at i and a "]" at j
LinkEnds(s, j) ==
    {k \in (j + 2)..Len(s) : s[k] = ")" /\ NoNewline(s, j + 2, k - 1)}

LinkMids(s, i) ==
    {j \in (i + 1)..(Len(s) - 1) :
        /\ s[j] = "]" /\ s[j + 1] = "("
        /\ NoNewline(s, i + 1, j - 1)
        /\ LinkEnds(s, j) # {}}

\* .replace(/\[(.*?)\]\(.*?\)/g, '$1')
RECURSIVE unlinkFrom(_, _)
unlinkFrom(s, i) ==
    LET Link(p) == s[p] = "[" /\ LinkMids(s, p) # {}
        Rest(p) ==
            IF p > Len(s) THEN SubSeq(s, i, Len(s))
            ELSE With(Min(LinkMids(s, p)),
                      LAMBDA j : SubSeq(s, i, p - 1) \o SubSeq(s, p + 1, j - 1)
                                     \o With(Min(LinkEnds(s, j)),
                                             LAMBDA k : unlinkFrom(s, k + 1)))
    IN  With(FirstMatch(s, i, Link), Rest)

\* the backquote character (written by its code point)
Backtick == "U+0060"

\* the five symbols removed by .replace(/.../g, ''), each one character here
Emojis == {"U+1F4CA", "U+1F4CC", "U+1F393", "U+23F0", "U+1F4DE"}

removeEmojis(s) == SelectSeq(s, LAMBDA c : c \notin Emojis)

\* .replace(/\s+/g, ' ')
\* of every run of whitespace the first character stays, as a space
collapseSpacesFrom(s, i) ==
    LET Kept(p) == ~IsSpace(s[p]) \/ p = i \/ ~IsSpace(s[p - 1])
        Spaced(kept) == [k \in 1..Len(kept) |-> IF IsSpace(s[kept[k]]) THEN " " ELSE s[kept[k]]]
    IN  With(SelectSeq([k \in 1..(Len(s) + 1 - i) |-> i + k - 1], Kept), Spaced)

cleanTextForSpeech(text) ==
    LET S2(s1) == replaceRulesFrom(s1, 1)
        S3(s2) == removeHeadingsFrom(s2, 1)
        S4(s3) == unwrapFrom(s3, 1, <<"*", "*">>)
        S5(s4) == unwrapFrom(s4, 1, <<"*">>)
        S6(s5) == unwrapFrom(s5, 1, <<Backtick>>)
        S7(s6) == unlinkFrom(s6, 1)
        S8(s7) == removeEmojis(s7)
        S9(s8) == collapseSpacesFrom(s8, 1)
    IN  With(With(With(With(With(With(With(With(With(
            replacePipes(text), S2), S3), S4), S5), S6), S7), S8), S9), trim)

-----------------------------------------------------------------------------
(* applyPronunciationCorrections *)

\* an element of a pattern: a character, possibly optional (c?)
Lit(c) == [ch |-> c, opt |-> FALSE]
Opt(c) == [ch |-> c, opt |-> TRUE]
Lits(w) == [i \in 1..Len(w) |-> Lit(w[i])]

\* \b between s[i-1] and s[i]
IsBoundary(s, i) ==
    LET before == i > 1 /\ i - 1 <= Len(s) /\ IsWordChar(s[i - 1])
        after  == i >= 1 /\ i <= Len(s) /\ IsWordChar(s[i])
    IN  before # after

\* the index after the match of pat[k..] at index i (flag i: letters compare
\* case-insensitively), by the backtracking order of the engine; 0: no match
RECURSIVE MatchFrom(_, _, _, _, _)
MatchFrom(s, i, pat, k, wb) ==
    IF k > Len(pat)
    THEN IF wb /\ ~IsBoundary(s, i) THEN 0 ELSE i
    ELSE LET take == IF i <= Len(s) /\ LowerChar(s[i]) = LowerChar(pat[k].ch)
                     THEN MatchFrom(s, i + 1, pat, k + 1, wb)
                     ELSE 0
         IN  IF pat[k].opt /\ take = 0
             THEN MatchFrom(s, i, pat, k + 1, wb)
             ELSE take

\* s.replace(new RegExp(pat, "gi"), repl); wb: the pattern stands between \b and \b
RECURSIVE replaceAllFrom(_, _, _, _, _)
replaceAllFrom(s, i, pat, wb, repl) ==
    LET MatchEnd(p) == IF wb /\ ~IsBoundary(s, p) THEN 0 ELSE MatchFrom(s, p, pat, 1, wb)
        Matches(p) == MatchEnd(p) > p
        Rest(p) ==
            IF p > Len(s) THEN SubSeq(s, i, Len(s))
            ELSE SubSeq(s, i, p - 1) \o repl
                     \o With(MatchEnd(p), LAMBDA e : replaceAllFrom(s, e, pat, wb, repl))
    IN  With(FirstMatch(s, i, Matches), Rest)

\* the fixed replacements of applyPronunciationCorrections, in source order
FixedCorrections == <<
    [pat |-> <<Lit("b"), Opt("."), Lit("a")>>, wb |-> TRUE, repl |-> <<"B","e","e"," ","A">>],
    [pat |-> <<Lit("m"), Opt("."), Lit("a")>>, wb |-> TRUE, repl |-> <<"E","m"," ","A">>],
    [pat |-> Lits(<<"b","c","a">>), wb |-> TRUE,
        repl |-> <<"B","e","e"," ","S","e","e"," ","A">>],
    [pat |-> Lits(<<"p","g","d","c","a">>), wb |-> TRUE,
        repl |-> <<"P","e","e"," ","J","e","e"," ","D","e","e"," ","S","e","e"," ","A">>],
    [pat |-> <<Lit("b"), Opt("."), Lit("s"), Lit("c")>>, wb |-> TRUE,
        repl |-> <<"B","e","e"," ","E","s","s"," ","S","e","e">>],
    [pat |-> <<Lit("m"), Opt("."), Lit("s"), Lit("c")>>, wb |-> TRUE,
        repl |-> <<"E","m"," ","E","s","s"," ","S","e","e">>],
    [pat |-> <<Lit("p"), Lit("h"), Opt("."), Lit("d")>>, wb |-> TRUE,
        repl |-> <<"P","e","e"," ","A","y","c","h"," ","D","e","e">>],
    [pat |-> <<Lit("b"), Opt("."), Lit("c"), Lit("o"), Lit("m")>>, wb |-> TRUE,
        repl |-> <<"B","e","e"," ","K","o","m">>],
    [pat |-> <<Lit("m"), Opt("."), Lit("c"), Lit("o"), Lit("m")>>, wb |-> TRUE,
        repl |-> <<"E","m"," ","K","o","m">>],
    [pat |-> Lits(<<"m","e">>), wb |-> TRUE, repl |-> <<"m","a","i">>],
    [pat |-> Lits(<<"a","i","/","m","l">>), wb |-> FALSE, repl |-> <<"A","I"," ","M","L">>],
    [pat |-> Lits(<<"a",".","i",".">>), wb |-> FALSE, repl |-> <<"A","I">>],
    [pat |-> Lits(<<"m",".","l",".">>), wb |-> FALSE, repl |-> <<"M","L">>] >>

\* the dictionary entries as replacements: new RegExp("\\b" + original + "\\b", "gi")
TableCorrections(table) ==
    [i \in 1..Len(table) |->
        [pat |-> Lits(table[i].original), wb |-> TRUE, repl |-> table[i].corrected]]

RECURSIVE applyAll(_, _, _)
applyAll(s, rules, k) ==
    IF k > Len(rules) THEN s
    ELSE With(replaceAllFrom(s, 1, rules[k].pat, rules[k].wb, rules[k].repl),
              LAMBDA replaced : applyAll(replaced, rules, k + 1))

applyPronunciationCorrections(text, table) ==
    With(applyAll(text, FixedCorrections, 1),
         LAMBDA fixed : applyAll(fixed, TableCorrections(table), 1))

-----------------------------------------------------------------------------
(* detectLanguage *)

hindiWords == <<
    <<"a","a","p">>,
    <<"h","a","i">>,
    <<"h","a","i","n">>,
    <<"k","y","a">>,
    <<"k","a","i","s","e">>,
    <<"k","a","h","a","n">>,
    <<"n","a","m","a","s","t","e">>,
    <<"d","h","a","n","y","a","w","a","d">>,
    <<"m","a","i","n">>,
    <<"h","u","m">>,
    <<"k","a","r">>,
    <<"k","a","r","o">>,
    <<"k","a","r","n","a">>,
    <<"k","i","y","a">>,
    <<"g","h","a","r">>,
    <<"p","a","a","n","i">>,
    <<"k","h","a","n","a">>,
    <<"c","o","l","l","e","g","e">>,
    <<"s","t","u","d","e","n","t">>,
    <<"t","e","a","c","h","e","r">>,
    <<"l","i","b","r","a","r","y">>,
    <<"h","o","s","t","e","l">>,
    <<"f","e","e","s">>,
    <<"e","x","a","m">>,
    <<"r","e","s","u","l","t">>,
    <<"m","a","d","a","d">>,
    <<"h","e","l","p">>,
    <<"p","r","o","b","l","e","m">>,
    <<"a","c","h","h","a">>,
    <<"b","u","r","a">>,
    <<"n","a","y","a">>,
    <<"p","u","r","a","n","a">>,
    <<"b","a","d","a">>,
    <<"c","h","o","t","a">>,
    <<"s","e">>,
    <<"k","o">>,
    <<"k","e">>,
    <<"k","i">>,
    <<"k","a">>,
    <<"m","e">>,
    <<"m","e","i","n">>,
    <<"p","a","r">>,
    <<"p","e">>,
    <<"t","a","k">>,
    <<"a","u","r">>,
    <<"y","a">>,
    <<"l","e","k","i","n">>,
    <<"a","g","a","r">>,
    <<"t","o">>,
    <<"p","h","i","r">>,
    <<"f","i","r">>,
    <<"k","y","u","n">>,
    <<"k","y","o","n">>,
    <<"k","a","b">>,
    <<"k","o","n">>,
    <<"k","a","u","n">>,
    <<"k","i","t","n","a">>,
    <<"k","i","t","n","i">>,
    <<"k","i","t","n","e">> >>

\* text.split(/\s+/).length: one more than the number of runs of whitespace
SpaceRunsFrom(s, i) ==
    Cardinality({p \in i..Len(s) : IsSpace(s[p]) /\ (p = i \/ ~IsSpace(s[p - 1]))})

splitCount(s) == SpaceRunsFrom(s, 1) + 1

\* hindiWordCount / totalWords > 0.2, in integers: 5 * count > totalWords
detectLanguage(text) ==
    LET hindiWordCount(lowerText) ==
            Cardinality({i \in 1..Len(hindiWords) : includes(lowerText, hindiWords[i])})
        totalWords == splitCount(text)
    IN  IF 5 * With(toLowerCase(text), hindiWordCount) > totalWords THEN "hi" ELSE "en"

TtsTextLimit == 1500


-----------------------------------------------------------------------------
(* The bundled JSON files, as parsed: client/data/college-info.json and      *)
(* client/data/classes-schedule.json are not part of the sources, so the     *)
(* model reads a small document of the shape initializeCollegeData expects.  *)

collegeInfoData ==
    [college |-> [name |-> <<"R","K","S","D">>, established_year |-> <<"1","9","5","4">>,
                  principal |-> <<"P">>, vice_principal |-> <<"V">>,
                  registrar |-> <<"R">>, founder |-> <<"F">>, motto |-> <<"M">>,
                  address |-> <<"K">>, phone |-> <<"1">>, email |-> <<"e">>,
                  website |-> <<"w">>, affiliation |-> <<"U">>],
     departments |-> << [key |-> <<"c","o","m","p","u","t","e","r","_","s","c","i","e","n","c","e">>,
                         head |-> <<"H">>, programs |-> << <<"B",".","A">>, <<"M",".","A">> >>,
                         specializations |-> << <<"A","I">> >>, isObject |-> TRUE],
                        [key |-> <<"d","e","p","a","r","t","m","e","n","t","s","_","p","a","g","e","_","u","r","l">>,
                         head |-> <<>>, programs |-> <<>>, specializations |-> <<>>,
                         isObject |-> FALSE] >>,
     contacts |-> [principal_office |-> <<"1">>, admission_office |-> <<"2">>,
                   academic_office |-> <<"3">>, hostel_office |-> <<"4">>,
                   placement_cell |-> <<"5">>],
     timings |-> [college_hours |-> <<"9","-","4">>, library |-> <<"8","-","6">>,
                  lab_hours |-> <<"9","-","3">>, office_hours |-> <<"9","-","5">>],
     hostel |-> [boys_timing |-> <<"1","0">>, girls_timing |-> <<"9">>,
                 late_entry_policy |-> <<"N","o">>, facilities |-> << <<"W","i","f","i">> >>],
     events |-> << [name |-> <<"T","e","c","h"," ","F","e","s","t">>, type |-> <<"T">>, month |-> <<"M","a","r">>,
                    hasDescription |-> FALSE, description |-> <<>>,
                    hasActivities |-> TRUE, activities |-> << <<"Q">>, <<"Z">> >>] >>,
     sports |-> [facilities |-> << <<"G">> >>, clubs |-> << <<"C">> >>,
                 achievements |-> <<>>],
     ncc |-> [units |-> << <<"1">> >>, activities |-> << <<"D">> >>],
     nss |-> [motto |-> <<"N">>, activities |-> << <<"S">> >>],
     cultural |-> [annual_fest |-> <<"Y">>, events |-> << <<"E">> >>, clubs |-> << <<"L">> >>],
     admissions |-> [application_period |-> <<"M","a","y">>, merit_list_date |-> <<"A","u","g">>,
                     counseling_dates |-> <<"S","e","p">>, online_admission_portal |-> <<"o">>,
                     selection_criteria |-> <<"m">>]]

classesData ==
    [teachers |-> << [name |-> <<"D","r"," ","X">>, department |-> <<"C","S">>,
                      cabin |-> <<"1">>, timing |-> <<"9">>,
                      subjects |-> << <<"A","I">> >>] >>,
     classes |-> << [course |-> <<"B","C","A">>,
                     subjects |-> << [subject |-> <<"C">>, teacher |-> <<"X">>,
                                      room |-> <<"R","1">>, timing |-> <<"9">>,
                                      days |-> << <<"M","o","n">>, <<"T","u","e">> >>],
                                     [subject |-> <<"D">>, teacher |-> <<"X">>,
                                      room |-> <<"R","2">>, timing |-> <<"1">>,
                                      days |-> << <<"W","e","d">> >>] >>] >>,
     rooms |-> << [room |-> <<"R","1">>, description |-> <<"L","a","b">>] >>]

\* Array.prototype.join
RECURSIVE join(_, _)
join(list, sep) ==
    IF list = <<>> THEN <<>>
    ELSE IF Len(list) = 1 THEN list[1]
         ELSE list[1] \o sep \o join(Tail(list), sep)

\* Array.prototype.filter and map, for the arrays of the model
RECURSIVE SelectSeqBy(_, _)
SelectSeqBy(list, keep) ==
    IF list = <<>> THEN <<>>
    ELSE IF keep[1] THEN <<list[1]>> \o SelectSeqBy(Tail(list), Tail(keep))
         ELSE SelectSeqBy(Tail(list), Tail(keep))

UpperChar(ch) ==
    IF IsLower(ch)
    THEN UpperChars[CHOOSE i \in 1..Len(LowerChars) : LowerChars[i] = ch]
    ELSE ch

\* key.charAt(0).toUpperCase() + key.replace(/_/g, ' ').slice(1)
DepartmentName(key) ==
    IF key = <<>> THEN <<>>
    ELSE <<UpperChar(key[1])>> \o
         [i \in 1..(Len(key) - 1) |-> IF key[i + 1] = "_" THEN " " ELSE key[i + 1]]

\* lines 167-172
CollegeBasicRecord(d) ==
    [category |-> <<"c","o","l","l","e","g","e">>,
     title |-> <<"C","o","l","l","e","g","e"," ","B","a","s","i","c"," ","I","n","f","o","r","m","a","t","i","o","n">>,
     content |->
            d.college.name \o <<" ","e","s","t","a","b","l","i","s","h","e","d">>
            \o <<" ","i","n"," ">> \o d.college.established_year
            \o <<"."," ","P","r","i","n","c","i","p","a","l",":">> \o <<" ">> \o d.college.principal
            \o <<"."," ","V","i","c","e"," ","P","r","i","n","c">> \o <<"i","p","a","l",":"," ">>
            \o d.college.vice_principal \o <<"."," ","R","e","g","i","s","t","r","a","r",":">>
            \o <<" ">> \o d.college.registrar \o <<"."," ","F","o","u","n","d","e","r",":"," ">>
            \o d.college.founder \o <<"."," ","M","o","t","t","o",":"," ","\"">> \o d.college.motto
            \o <<"\"","."," ","A","d","d","r","e","s","s",":"," ">> \o d.college.address
            \o <<"."," ","P","h","o","n","e",":"," ">> \o d.college.phone
            \o <<"."," ","E","m","a","i","l",":"," ">> \o d.college.email
            \o <<"."," ","W","e","b","s","i","t","e",":"," ">> \o d.college.website
            \o <<"."," ","A","f","f","i","l","i","a","t","e","d">>
            \o <<" ","w","i","t","h",":"," ">> \o d.college.affiliation \o <<".">>,
     metadata |-> <<"JSON.stringify(collegeInfoData.college)">>]

\* lines 177-182
DepartmentRecord(dept) ==
    [category |-> <<"d","e","p","a","r","t","m","e","n","t">>,
     title |-> DepartmentName(dept.key) \o <<" ","D","e","p","a","r","t","m","e","n","t">>,
     content |->
            DepartmentName(dept.key) \o <<" ","D","e","p","a","r","t","m","e","n","t"," ">>
            \o <<"H","e","a","d",":"," ">> \o dept.head
            \o <<"."," ","P","r","o","g","r","a","m","s"," ","o">>
            \o <<"f","f","e","r","e","d",":"," ">> \o join(dept.programs, <<","," ">>)
            \o <<"."," ","S","p","e","c","i","a","l","i","z","a">>
            \o <<"t","i","o","n","s",":"," ">> \o join(dept.specializations, <<","," ">>) \o <<".">>,
     metadata |-> <<"JSON.stringify({ name: key, ...dept })">>]

\* lines 185-190
ContactRecord(d) ==
    [category |-> <<"c","o","n","t","a","c","t">>,
     title |-> <<"C","o","n","t","a","c","t"," ","I","n","f","o","r","m","a","t","i","o","n">>,
     content |->
            <<"P","r","i","n","c","i","p","a","l"," ","O","f">> \o <<"f","i","c","e",":"," ">>
            \o d.contacts.principal_office \o <<"."," ","A","d","m","i","s","s","i","o","n"," ">>
            \o <<"O","f","f","i","c","e",":"," ">> \o d.contacts.admission_office
            \o <<"."," ","A","c","a","d","e","m","i","c"," ","O">>
            \o <<"f","f","i","c","e",":"," ">> \o d.contacts.academic_office
            \o <<"."," ","H","o","s","t","e","l"," ","O","f","f">> \o <<"i","c","e",":"," ">>
            \o d.contacts.hostel_office \o <<"."," ","P","l","a","c","e","m","e","n","t"," ">>
            \o <<"C","e","l","l",":"," ">> \o d.contacts.placement_cell \o <<".">>,
     metadata |-> <<"JSON.stringify(collegeInfoData.contacts)">>]

\* lines 193-198
TimingsRecord(d) ==
    [category |-> <<"t","i","m","i","n","g","s">>,
     title |-> <<"C","o","l","l","e","g","e"," ","T","i","m","i","n","g","s">>,
     content |->
            <<"C","o","l","l","e","g","e"," ","H","o","u","r">> \o <<"s",":"," ">>
            \o d.timings.college_hours \o <<"."," ","L","i","b","r","a","r","y",":"," ">>
            \o d.timings.library \o <<"."," ","L","a","b"," ","H","o","u","r","s",":">> \o <<" ">>
            \o d.timings.lab_hours \o <<"."," ","O","f","f","i","c","e"," ","H","o","u">>
            \o <<"r","s",":"," ">> \o d.timings.office_hours \o <<".">>,
     metadata |-> <<"JSON.stringify(collegeInfoData.timings)">>]

\* lines 201-206
HostelRecord(d) ==
    [category |-> <<"h","o","s","t","e","l">>,
     title |-> <<"H","o","s","t","e","l"," ","I","n","f","o","r","m","a","t","i","o","n">>,
     content |->
            <<"B","o","y","s"," ","h","o","s","t","e","l"," ">>
            \o <<"t","i","m","i","n","g",":"," ">> \o d.hostel.boys_timing
            \o <<"."," ","G","i","r","l","s"," ","h","o","s","t">>
            \o <<"e","l"," ","t","i","m","i","n","g",":"," ">> \o d.hostel.girls_timing
            \o <<"."," ">> \o d.hostel.late_entry_policy
            \o <<"."," ","F","a","c","i","l","i","t","i","e","s">> \o <<":"," ">>
            \o join(d.hostel.facilities, <<","," ">>) \o <<".">>,
     metadata |-> <<"JSON.stringify(collegeInfoData.hostel)">>]

\* lines 209-214
EventRecord(event) ==
    [category |-> <<"e","v","e","n","t","s">>,
     title |-> event.name,
     content |->
            event.name \o <<" ","(">> \o event.type \o <<")"," ","h","e","l","d"," ","i","n"," ">>
            \o event.month \o <<"."," ">>
            \o (IF event.hasDescription THEN event.description ELSE <<>>)
            \o <<" ","A","c","t","i","v","i","t","i","e","s",":">> \o <<" ">>
            \o (IF event.hasActivities THEN join(event.activities, <<","," ">>) ELSE <<>>)
            \o <<".">>,
     metadata |-> <<"JSON.stringify(event)">>]

\* lines 217-222
SportsRecord(d) ==
    [category |-> <<"s","p","o","r","t","s">>,
     title |-> <<"S","p","o","r","t","s"," ","a","n","d"," ","A","t","h","l","e","t","i","c","s">>,
     content |->
            <<"S","p","o","r","t","s"," ","f","a","c","i","l">> \o <<"i","t","i","e","s",":"," ">>
            \o join(d.sports.facilities, <<","," ">>) \o <<"."," ","C","l","u","b","s",":"," ">>
            \o join(d.sports.clubs, <<","," ">>)
            \o <<"."," ","A","c","h","i","e","v","e","m","e","n">> \o <<"t","s",":"," ">>
            \o join(d.sports.achievements, <<","," ">>) \o <<".">>,
     metadata |-> <<"JSON.stringify(collegeInfoData.sports)">>]

\* lines 225-230
NccRecord(d) ==
    [category |-> <<"a","c","t","i","v","i","t","i","e","s">>,
     title |-> <<"N","C","C"," ","A","c","t","i","v","i","t","i","e","s">>,
     content |->
            <<"N","C","C"," ","U","n","i","t","s",":"," ">> \o join(d.ncc.units, <<","," ">>)
            \o <<"."," ","A","c","t","i","v","i","t","i","e","s">> \o <<":"," ">>
            \o join(d.ncc.activities, <<","," ">>) \o <<".">>,
     metadata |-> <<"JSON.stringify(collegeInfoData.ncc)">>]

\* lines 231-236
NssRecord(d) ==
    [category |-> <<"a","c","t","i","v","i","t","i","e","s">>,
     title |-> <<"N","S","S"," ","A","c","t","i","v","i","t","i","e","s">>,
     content |->
            <<"N","S","S"," ","M","o","t","t","o",":"," ","\"">> \o d.nss.motto
            \o <<"\"","."," ","A","c","t","i","v","i","t","i","e">> \o <<"s",":"," ">>
            \o join(d.nss.activities, <<","," ">>) \o <<".">>,
     metadata |-> <<"JSON.stringify(collegeInfoData.nss)">>]

\* lines 239-244
CulturalRecord(d) ==
    [category |-> <<"c","u","l","t","u","r","a","l">>,
     title |-> <<"C","u","l","t","u","r","a","l"," ","A","c","t","i","v","i","t","i","e","s">>,
     content |->
            <<"A","n","n","u","a","l"," ","C","u","l","t","u">>
            \o <<"r","a","l"," ","F","e","s","t",":"," ">> \o d.cultural.annual_fest
            \o <<"."," ","E","v","e","n","t","s",":"," ">> \o join(d.cultural.events, <<","," ">>)
            \o <<"."," ","C","l","u","b","s",":"," ">> \o join(d.cultural.clubs, <<","," ">>)
            \o <<".">>,
     metadata |-> <<"JSON.stringify(collegeInfoData.cultural)">>]

\* lines 247-252
AdmissionRecord(d) ==
    [category |-> <<"a","d","m","i","s","s","i","o","n">>,
     title |-> <<"A","d","m","i","s","s","i","o","n"," ","P","r","o","c","e","s","s">>,
     content |->
            <<"A","p","p","l","i","c","a","t","i","o","n"," ">>
            \o <<"P","e","r","i","o","d",":"," ">> \o d.admissions.application_period
            \o <<"."," ","M","e","r","i","t"," ","L","i","s","t">> \o <<":"," ">>
            \o d.admissions.merit_list_date \o <<"."," ","C","o","u","n","s","e","l","i","n","g">>
            \o <<":"," ">> \o d.admissions.counseling_dates
            \o <<"."," ","P","o","r","t","a","l",":"," ">> \o d.admissions.online_admission_portal
            \o <<"."," ","S","e","l","e","c","t","i","o","n"," ">>
            \o <<"C","r","i","t","e","r","i","a",":"," ">> \o d.admissions.selection_criteria
            \o <<".">>,
     metadata |-> <<"JSON.stringify(collegeInfoData.admissions)">>]

\* lines 255-260
FacultyRecord(teacher) ==
    [category |-> <<"f","a","c","u","l","t","y">>,
     title |-> <<"F","a","c","u","l","t","y"," ","-"," ">> \o teacher.name,
     content |->
            teacher.name \o <<" ","f","r","o","m"," ">> \o teacher.department
            \o <<"."," ","C","a","b","i","n",":"," ">> \o teacher.cabin
            \o <<"."," ","T","i","m","i","n","g",":"," ">> \o teacher.timing
            \o <<"."," ","S","u","b","j","e","c","t","s",":"," ">>
            \o join(teacher.subjects, <<","," ">>) \o <<".">>,
     metadata |-> <<"JSON.stringify(teacher)">>]

\* lines 266-267
SubjectLine(subject) ==
    subject.subject \o <<" ","b","y"," ">> \o subject.teacher \o <<" ","i","n"," ">>
    \o subject.room \o <<" ","(">> \o subject.timing \o <<")"," ","o","n"," ">>
    \o join(subject.days, <<","," ">>)

\* lines 263-270
ClassRecord(courseInfo) ==
    [category |-> <<"c","l","a","s","s","e","s">>,
     title |-> courseInfo.course \o <<" ","S","c","h","e","d","u","l","e">>,
     content |->
            join([i \in 1..Len(courseInfo.subjects) |-> SubjectLine(courseInfo.subjects[i])], <<"."," ">>),
     metadata |-> <<"JSON.stringify(courseInfo)">>]

\* lines 273-278
RoomsRecord(k) ==
    [category |-> <<"r","o","o","m","s">>,
     title |-> <<"R","o","o","m"," ","I","n","f","o","r","m","a","t","i","o","n">>,
     content |->
            join([i \in 1..Len(k.rooms) |-> k.rooms[i].room \o <<":"," ">> \o k.rooms[i].description], <<"."," ">>),
     metadata |-> <<"JSON.stringify(classesData.rooms)">>]


\* lines 165-279: the records built from the two parsed documents, without ids
defaultData(d, k) ==
    LET depts == SelectSeqBy(d.departments,
                    [i \in 1..Len(d.departments) |->
                        d.departments[i].key # <<"d","e","p","a","r","t","m","e","n","t","s","_","p","a","g","e","_","u","r","l">>])
    IN  <<CollegeBasicRecord(d)>>
        \o [i \in 1..Len(depts) |-> DepartmentRecord(depts[i])]
        \o <<ContactRecord(d), TimingsRecord(d), HostelRecord(d)>>
        \o [i \in 1..Len(d.events) |-> EventRecord(d.events[i])]
        \o <<SportsRecord(d), NccRecord(d), NssRecord(d), CulturalRecord(d),
             AdmissionRecord(d)>>
        \o [i \in 1..Len(k.teachers) |-> FacultyRecord(k.teachers[i])]
        \o [i \in 1..Len(k.classes) |-> ClassRecord(k.classes[i])]
        \o <<RoomsRecord(k)>>

\* lines 290-297: the fallback record, without id
basicData ==
    << [category |-> <<"c","o","l","l","e","g","e">>,
        title |-> <<"C","o","l","l","e","g","e"," ","I","n","f","o","r","m","a","t","i","o","n">>,
        content |->
            <<"R",".","K",".","S",".","D","."," ","(","P","G">>
            \o <<")"," ","C","o","l","l","e","g","e",","," ","K">>
            \o <<"a","i","t","h","a","l"," ","-"," ","P","l","e">>
            \o <<"a","s","e"," ","c","o","n","t","a","c","t"," ">>
            \o <<"c","o","l","l","e","g","e"," ","f","o","r"," ">>
            \o <<"m","o","r","e"," ","i","n","f","o","r","m","a">> \o <<"t","i","o","n",".">>,
        metadata |-> <<"JSON.stringify({ error: 'Data files not found' })">>] >>

-----------------------------------------------------------------------------
(* POST /api/tts *)

\* slot r is the first slot that holds no request
SlotFree(r) ==
    /\ tts[r].pc = "idle" /\ ask[r].pc = "idle"
    /\ \A q \in Slots : q < r => (tts[q].pc # "idle" \/ ask[q].pc # "idle")

CartesiaPlaceholder == "your_cartesia_api_key_here"
ElevenLabsPlaceholder == "your_elevenlabs_api_key_here"

\* the values an API key of process.env takes in the model
CartesiaKeys == {Undefined, "", CartesiaPlaceholder, "cartesia-key"}
ElevenLabsKeys == {Undefined, "", ElevenLabsPlaceholder, "elevenlabs-key"}

\* key && key !== placeholder
KeyConfigured(key, placeholder) ==
    key # Undefined /\ key # "" /\ key # placeholder

\* z.enum([...]) of ttsSchema.language
LanguageEnum == {"en", "fr", "de", "es", "pt", "zh", "ja", "hi", "it", "ko",
                 "nl", "pl", "ru", "sv", "tr"}

\* ttsSchema.parse(req.body) does not throw
ttsSchemaOk(body) ==
    /\ body.hasText /\ Len(body.text) >= 1
    /\ body.voiceId # Undefined
    /\ body.language \in LanguageEnum \cup {Undefined}

\* the audio buffers a provider may answer with
Buffers == {"audioA", "audioB"}
NoAudio == "none"

AudioResponse(provider, contentType, buf) ==
    [status |-> 200, contentType |-> contentType, provider |-> provider,
     error |-> "none", audio |-> buf]

ErrorResponse(status, error) ==
    [status |-> status, contentType |-> "application/json", provider |-> "none",
     error |-> error, audio |-> NoAudio]

\* a request slot before its request arrives
TtsIdle ==
    [pc |-> "idle", body |-> [hasText |-> FALSE, text |-> <<>>, voiceId |-> Undefined,
                              language |-> Undefined],
     text |-> <<>>, language |-> "none", calls |-> <<>>,
     cartesia |-> "none", eleven |-> "none",
     cartesiaAudio |-> NoAudio, elevenAudio |-> NoAudio, resps |-> <<>>]

\* res.send / res.json followed by the handler's return
TtsRespond(t, resp) == [t EXCEPT !.pc = "done", !.resps = Append(@, resp)]

\* a faulty variant of AllProvidersFailed: the failure is reported as a server
\* error
AllProvidersFailedAsServerError(t) == TtsRespond(t, ErrorResponse(500, "SERVER_ERROR"))

\* lines 320-324: both providers failed
AllProvidersFailed(t) == TtsRespond(t, ErrorResponse(503, "ALL_TTS_PROVIDERS_FAILED"))

\* lines 277-298 and 316-318: the ElevenLabs section up to its fetch
ElevenLabsAttempt(t) ==
    IF KeyConfigured(env.eleven, ElevenLabsPlaceholder)
    THEN [t EXCEPT !.pc = "eleven_fetch",
                   !.calls = Append(@, [provider |-> "elevenlabs", text |-> t.text,
                                        language |-> "none"])]
    ELSE AllProvidersFailed([t EXCEPT !.eleven = "skipped"])

\* lines 219-255 and 273-275: the Cartesia section up to its fetch
CartesiaAttempt(t) ==
    IF KeyConfigured(env.cartesia, CartesiaPlaceholder)
    THEN [t EXCEPT !.pc = "cartesia_fetch",
                   !.calls = Append(@, [provider |-> "cartesia", text |-> t.text,
                                        language |-> t.language])]
    ELSE ElevenLabsAttempt([t EXCEPT !.cartesia = "skipped"])

\* a faulty variant of CartesiaSuccess: the audio is sent and the handler does
\* not return
CartesiaSuccessWithoutReturn(t, buf) ==
    ElevenLabsAttempt([t EXCEPT !.cartesia = "ok", !.cartesiaAudio = buf,
                                !.resps = Append(@, AudioResponse("cartesia", "audio/wav",
                                                                  buf))])

\* a faulty variant of CartesiaSuccess: the handler goes on to ElevenLabs
CartesiaSuccessThenElevenLabs(t, buf) ==
    ElevenLabsAttempt([t EXCEPT !.cartesia = "ok", !.cartesiaAudio = buf])

\* lines 257-265: Cartesia answered OK and its body was read
CartesiaSuccess(t, buf) ==
    TtsRespond([t EXCEPT !.cartesia = "ok", !.cartesiaAudio = buf],
               AudioResponse("cartesia", "audio/wav", buf))

\* a faulty variant of CartesiaFailed: an exception of the attempt reaches the
\* outer catch
CartesiaFailedEndsRequest(t, how) ==
    IF how \in {"threw", "bodythrew"}
    THEN TtsRespond([t EXCEPT !.cartesia = how], ErrorResponse(500, "SERVER_ERROR"))
    ELSE ElevenLabsAttempt([t EXCEPT !.cartesia = how])

\* lines 266-272: the Cartesia attempt ended without audio
CartesiaFailed(t, how) == ElevenLabsAttempt([t EXCEPT !.cartesia = how])

\* a faulty variant of ElevenLabsSuccess: the audio is labelled as Cartesia's
ElevenLabsSuccessMislabelled(t, buf) ==
    TtsRespond([t EXCEPT !.eleven = "ok", !.elevenAudio = buf],
               AudioResponse("cartesia", "audio/wav", buf))

\* lines 300-308: ElevenLabs answered OK and its body was read
ElevenLabsSuccess(t, buf) ==
    TtsRespond([t EXCEPT !.eleven = "ok", !.elevenAudio = buf],
               AudioResponse("elevenlabs", "audio/mpeg", buf))

\* a faulty variant of ElevenLabsFailed: a failed attempt is made once more
ElevenLabsFailedRetries(t, how) ==
    IF Len(t.calls) < 3
    THEN ElevenLabsAttempt([t EXCEPT !.eleven = how])
    ELSE AllProvidersFailed([t EXCEPT !.eleven = how])

\* lines 309-324: the ElevenLabs attempt ended without audio
ElevenLabsFailed(t, how) == AllProvidersFailed([t EXCEPT !.eleven = how])

\* lines 326-333: the outer catch
TtsServerError(t) == TtsRespond(t, ErrorResponse(500, "SERVER_ERROR"))

\* a faulty variant of TtsHandle: the corrected text is sent whole
TtsHandleWithoutLimit(t, body, table) ==
    LET t0 == [t EXCEPT !.body = body]
    IN  IF ~ttsSchemaOk(body) THEN TtsServerError(t0)
        ELSE IF Len(trim(body.text)) = 0
             THEN TtsRespond(t0, ErrorResponse(400, "EMPTY_TEXT"))
             ELSE With(cleanTextForSpeech(body.text), LAMBDA cleanedText :
                  With(applyPronunciationCorrections(cleanedText, table),
                       LAMBDA correctedText :
                  With(detectLanguage(correctedText), LAMBDA detectedLanguage :
                  With([t0 EXCEPT !.text = correctedText, !.language = detectedLanguage],
                       CartesiaAttempt))))

\* a faulty variant of TtsHandle: a request that names Hindi or English is
\* taken at its word
TtsHandleTrustingLanguage(t, body, table) ==
    LET t0 == [t EXCEPT !.body = body]
    IN  IF ~ttsSchemaOk(body) THEN TtsServerError(t0)
        ELSE IF Len(trim(body.text)) = 0
             THEN TtsRespond(t0, ErrorResponse(400, "EMPTY_TEXT"))
             ELSE With(cleanTextForSpeech(body.text), LAMBDA cleanedText :
                  With(applyPronunciationCorrections(cleanedText, table),
                       LAMBDA correctedText :
                  With(substring(correctedText, 0, TtsTextLimit), LAMBDA limitedText :
                  With(IF body.language \in {"hi", "en"}
                       THEN body.language
                       ELSE detectLanguage(limitedText), LAMBDA detectedLanguage :
                  With([t0 EXCEPT !.text = limitedText, !.language = detectedLanguage],
                       CartesiaAttempt)))))

\* lines 176-218: parse, the empty-text check, cleaning, correction, the limit
\* and the language detection, then the Cartesia section
TtsHandle(t, body, table) ==
    LET t0 == [t EXCEPT !.body = body]
    IN  IF ~ttsSchemaOk(body) THEN TtsServerError(t0)
        ELSE IF Len(trim(body.text)) = 0
             THEN TtsRespond(t0, ErrorResponse(400, "EMPTY_TEXT"))
             ELSE With(cleanTextForSpeech(body.text), LAMBDA cleanedText :
                  With(applyPronunciationCorrections(cleanedText, table),
                       LAMBDA correctedText :
                  With(substring(correctedText, 0, TtsTextLimit), LAMBDA limitedText :
                  With(detectLanguage(limitedText), LAMBDA detectedLanguage :
                  With([t0 EXCEPT !.text = limitedText, !.language = detectedLanguage],
                       CartesiaAttempt)))))

\* the request bodies of the model: a plain text, a text with markdown and
\* Hindi words, a text of whitespace, an empty text, a body without voiceId
TtsBodies ==
    { [hasText |-> TRUE, text |-> <<"H","e","l","l","o">>, voiceId |-> "v1",
       language |-> Undefined],
      [hasText |-> TRUE,
       text |-> <<"*","*","B",".","A","*","*"," ","m","e"," ","k","y","a"," ","h","a","i">>,
       voiceId |-> "v1", language |-> "en"],
      [hasText |-> TRUE, text |-> <<" ","\t">>, voiceId |-> "v1", language |-> Undefined],
      [hasText |-> TRUE, text |-> <<>>, voiceId |-> "v1", language |-> Undefined],
      [hasText |-> TRUE, text |-> <<"H","e","l","l","o">>, voiceId |-> Undefined,
       language |-> "hi"] }

\* bodies that differ in their language alone: a listed Hindi word that the
\* corrections rewrite, sent as French, as Hindi and without language; and an
\* English text sent as Hindi
LanguageBodies ==
    { [hasText |-> TRUE, text |-> <<"m","e">>, voiceId |-> "v1", language |-> "fr"],
      [hasText |-> TRUE, text |-> <<"m","e">>, voiceId |-> "v1", language |-> "hi"],
      [hasText |-> TRUE, text |-> <<"m","e">>, voiceId |-> "v1", language |-> Undefined],
      [hasText |-> TRUE, text |-> <<"H","e","l","l","o">>, voiceId |-> "v1",
       language |-> "hi"] }

\* one body for each way the handler can start: valid, whitespace, rejected
CoreTtsBodies ==
    { [hasText |-> TRUE, text |-> <<"H","e","l","l","o">>, voiceId |-> "v1",
       language |-> Undefined],
      [hasText |-> TRUE, text |-> <<" ","\t">>, voiceId |-> "v1", language |-> Undefined],
      [hasText |-> TRUE, text |-> <<>>, voiceId |-> "v1", language |-> Undefined] }

\* a request arrives: the handler runs up to its first await or to its response
TtsStart(r, bodies) ==
    /\ SlotFree(r)
    /\ \E body \in bodies :
          tts' = [tts EXCEPT ![r] = TtsHandle(tts[r], body, pronunciationCorrections)]
    /\ UNCHANGED <<hookVars, env, pronunciationCorrections, users, chatMessages, collegeInfo, files,
                   now, ask>>
    /\ httpResp' = NoResponse

\* await fetch('https://api.cartesia.ai/tts/bytes') settles
CartesiaFetchSettles(r) ==
    /\ tts[r].pc = "cartesia_fetch"
    /\ \E outcome \in {"ok", "nonok", "throw"} :
          tts' = [tts EXCEPT ![r] =
                    CASE outcome = "ok" -> [tts[r] EXCEPT !.pc = "cartesia_body"]
                      [] outcome = "nonok" -> [tts[r] EXCEPT !.pc = "cartesia_errtext"]
                      [] OTHER -> CartesiaFailed(tts[r], "threw")]
    /\ UNCHANGED <<hookVars, env, pronunciationCorrections, users, chatMessages, collegeInfo, files,
                   now, ask>>
    /\ httpResp' = NoResponse

\* await cartesiaResponse.arrayBuffer() settles
CartesiaBodySettles(r) ==
    /\ tts[r].pc = "cartesia_body"
    /\ \/ \E buf \in Buffers : tts' = [tts EXCEPT ![r] = CartesiaSuccess(tts[r], buf)]
       \/ tts' = [tts EXCEPT ![r] = CartesiaFailed(tts[r], "bodythrew")]
    /\ UNCHANGED <<hookVars, env, pronunciationCorrections, users, chatMessages, collegeInfo, files,
                   now, ask>>
    /\ httpResp' = NoResponse

\* await cartesiaResponse.text() settles (with the text or by throwing)
CartesiaErrTextSettles(r) ==
    /\ tts[r].pc = "cartesia_errtext"
    /\ tts' = [tts EXCEPT ![r] = CartesiaFailed(tts[r], "nonok")]
    /\ UNCHANGED <<hookVars, env, pronunciationCorrections, users, chatMessages, collegeInfo, files,
                   now, ask>>
    /\ httpResp' = NoResponse

\* await fetch('https://api.elevenlabs.io/v1/text-to-speech/...') settles
ElevenLabsFetchSettles(r) ==
    /\ tts[r].pc = "eleven_fetch"
    /\ \E outcome \in {"ok", "nonok", "throw"} :
          tts' = [tts EXCEPT ![r] =
                    CASE outcome = "ok" -> [tts[r] EXCEPT !.pc = "eleven_body"]
                      [] outcome = "nonok" -> [tts[r] EXCEPT !.pc = "eleven_errtext"]
                      [] OTHER -> ElevenLabsFailed(tts[r], "threw")]
    /\ UNCHANGED <<hookVars, env, pronunciationCorrections, users, chatMessages, collegeInfo, files,
                   now, ask>>
    /\ httpResp' = NoResponse

\* await elevenlabsResponse.arrayBuffer() settles
ElevenLabsBodySettles(r) ==
    /\ tts[r].pc = "eleven_body"
    /\ \/ \E buf \in Buffers : tts' = [tts EXCEPT ![r] = ElevenLabsSuccess(tts[r], buf)]
       \/ tts' = [tts EXCEPT ![r] = ElevenLabsFailed(tts[r], "bodythrew")]
    /\ UNCHANGED <<hookVars, env, pronunciationCorrections, users, chatMessages, collegeInfo, files,
                   now, ask>>
    /\ httpResp' = NoResponse

\* await elevenlabsResponse.text() settles (with the text or by throwing)
ElevenLabsErrTextSettles(r) ==
    /\ tts[r].pc = "eleven_errtext"
    /\ tts' = [tts EXCEPT ![r] = ElevenLabsFailed(tts[r], "nonok")]
    /\ UNCHANGED <<hookVars, env, pronunciationCorrections, users, chatMessages, collegeInfo, files,
                   now, ask>>
    /\ httpResp' = NoResponse

\* a faulty variant of TtsClose: the stored messages are dropped with the request
TtsCloseDroppingMessages(r) ==
    /\ tts[r].pc = "done"
    /\ tts' = [tts EXCEPT ![r] = TtsIdle]
    /\ chatMessages' = <<>>
    /\ UNCHANGED <<hookVars, env, pronunciationCorrections, users, collegeInfo, files, now, ask>>
    /\ httpResp' = NoResponse

\* the response has been delivered: the request and its locals are dropped
TtsClose(r) ==
    /\ tts[r].pc = "done"
    /\ tts' = [tts EXCEPT ![r] = TtsIdle]
    /\ UNCHANGED <<hookVars, env, pronunciationCorrections, users, chatMessages, collegeInfo, files,
                   now, ask>>
    /\ httpResp' = NoResponse

TtsStep(r, bodies) ==
    \/ TtsStart(r, bodies)
    \/ CartesiaFetchSettles(r)
    \/ CartesiaBodySettles(r)
    \/ CartesiaErrTextSettles(r)
    \/ ElevenLabsFetchSettles(r)
    \/ ElevenLabsBodySettles(r)
    \/ ElevenLabsErrTextSettles(r)
    \/ TtsClose(r)


-----------------------------------------------------------------------------
(* MemStorage *)

FileStates == {"ok", "missing", "invalid_json", "wrong_shape"}

\* randomUUID(): an id that no other call returns; here the n-th id handed out
\* for a collection
NewId(kind, n) == <<kind, n>>
NoId == <<"none", 0>>

\* this.collegeInfo.push({ ...data, id }) for every record of data, in order
pushAll(store, data) ==
    store \o [i \in 1..Len(data) |->
                [id |-> NewId("info", Len(store) + i), category |-> data[i].category,
                 title |-> data[i].title, content |-> data[i].content,
                 metadata |-> data[i].metadata]]

\* a faulty variant of initializeCollegeData: the records of the college file
\* are pushed before the class file is read
initializeCollegeDataPartial(f) ==
    IF f.college = "ok" /\ f.classes = "ok"
    THEN pushAll(<<>>, defaultData(collegeInfoData, classesData))
    ELSE IF f.college = "ok"
         THEN pushAll(pushAll(<<>>, SubSeq(defaultData(collegeInfoData, classesData), 1, 3)),
                      basicData)
         ELSE pushAll(<<>>, basicData)

\* lines 156-304: both files are read and parsed and the whole array is built
\* before the first push; any exception leads to the fallback record alone
initializeCollegeData(f) ==
    IF f.college = "ok" /\ f.classes = "ok"
    THEN pushAll(<<>>, defaultData(collegeInfoData, classesData))
    ELSE pushAll(<<>>, basicData)

\* a faulty variant of createChatMessage: the record takes the place of the
\* last one when the two have the same role
createChatMessageOverSameRole(msgs, id, time, message) ==
    LET record == [id |-> id, role |-> message.role, content |-> message.content,
                   language |-> message.language, timestamp |-> time]
    IN  IF msgs # <<>> /\ msgs[Len(msgs)].role = message.role
        THEN [msgs EXCEPT ![Len(msgs)] = record]
        ELSE Append(msgs, record)

\* lines 330-340: the stored array after createChatMessage; the new id is id
createChatMessage(msgs, id, time, message) ==
    Append(msgs, [id |-> id, role |-> message.role, content |-> message.content,
                  language |-> message.language, timestamp |-> time])

\* the place of x in an array sorted by descending timestamp: after every
\* element that does not sort after it (the sort is stable)
RECURSIVE InsertDescending(_, _)
InsertDescending(sorted, x) ==
    IF sorted = <<>> THEN <<x>>
    ELSE IF Head(sorted).timestamp >= x.timestamp
         THEN <<Head(sorted)>> \o InsertDescending(Tail(sorted), x)
         ELSE <<x>> \o sorted

\* Array.prototype.sort((a, b) => b.timestamp - a.timestamp)
RECURSIVE sortDescending(_)
sortDescending(msgs) ==
    IF msgs = <<>> THEN <<>>
    ELSE InsertDescending(sortDescending(SubSeq(msgs, 1, Len(msgs) - 1)), msgs[Len(msgs)])

reverse(list) == [i \in 1..Len(list) |-> list[Len(list) + 1 - i]]

DefaultLimit == 50

\* lines 323-328: sort() sorts this.chatMessages in place and returns it;
\* slice() copies, reverse() reverses the copy
getChatMessages(msgs, limit) ==
    LET sorted == sortDescending(msgs)
    IN  [stored |-> sorted, result |-> reverse(substring(sorted, 0, limit))]

\* a faulty variant of getCollegeInfoByCategory: the case is ignored
getCollegeInfoByCategoryAnyCase(store, category) ==
    SelectSeq(store, LAMBDA info : toLowerCase(info.category) = toLowerCase(category))

\* lines 346-348
getCollegeInfoByCategory(store, category) ==
    SelectSeq(store, LAMBDA info : info.category = category)

\* a faulty variant of createCollegeInfo: the record is put first
createCollegeInfoAtFront(store, id, info) ==
    <<[id |-> id, category |-> info.category, title |-> info.title,
       content |-> info.content, metadata |-> info.metadata]>> \o store

\* lines 350-359: the stored array after createCollegeInfo
createCollegeInfo(store, id, info) ==
    Append(store, [id |-> id, category |-> info.category, title |-> info.title,
                   content |-> info.content, metadata |-> info.metadata])

\* a faulty variant of searchCollegeInfo: the query is used as typed
searchCollegeInfoAsTyped(store, query) ==
    SelectSeq(store, LAMBDA info :
        \/ includes(toLowerCase(info.title), query)
        \/ includes(toLowerCase(info.content), query)
        \/ includes(toLowerCase(info.category), query))

\* lines 361-368
searchCollegeInfo(store, query) ==
    LET searchTerm == toLowerCase(query)
    IN  SelectSeq(store, LAMBDA info :
            \/ includes(toLowerCase(info.title), searchTerm)
            \/ includes(toLowerCase(info.content), searchTerm)
            \/ includes(toLowerCase(info.category), searchTerm))

\* lines 316-321: the users map after createUser
createUser(map, id, insertUser) ==
    [u \in DOMAIN map \cup {id} |->
        IF u = id THEN [id |-> id, username |-> insertUser.username,
                        password |-> insertUser.password]
        ELSE map[u]]

\* pronunciation-corrections.ts lines 114-119:
\* pronunciationCorrections[original.toLowerCase()] = corrected
addPronunciationCorrection(table, original, corrected) ==
    LET key == toLowerCase(original)
    IN  IF \E i \in 1..Len(table) : table[i].original = key
        THEN [i \in 1..Len(table) |->
                IF table[i].original = key
                THEN [original |-> key, corrected |-> corrected]
                ELSE table[i]]
        ELSE Append(table, [original |-> key, corrected |-> corrected])

-----------------------------------------------------------------------------
(* POST /api/ask *)

\* askSchema.parse(req.body) does not throw
askSchemaOk(body) == body.hasMessage /\ Len(body.message) >= 1

\* language || "en"
LanguageOrEn(language) ==
    IF language = Undefined \/ language = "" THEN "en" ELSE language

DefaultReply == <<"Hello! I'm your RKSD Assistant. How can I help you today?">>
GreetingReply ==
    <<"Hello! I'm your RKSD Assistant. How can I help you with college information today?">>
HostelReply ==
    <<"For hostel-related queries, please contact the hostel office during working hours. I can help you with general college information.">>
AdmissionReply ==
    <<"For admission inquiries, please visit the RKSD College admission office or check our official website for the latest information.">>
GenericReply(message) ==
    <<"Thank you for your question about \"">> \o message \o
    <<"\". I'm here to help with RKSD College information. Could you please be more specific about what you'd like to know?">>
TechnicalDifficultiesReply ==
    <<"I'm experiencing some technical difficulties, but I'm here to help! Please try asking your question again, or contact RKSD College directly for urgent inquiries.">>

\* lines 129-137: the reply chosen by keyword when the API answers non-OK
KeywordReply(message) ==
    LET lower == toLowerCase(message)
    IN  IF \/ includes(lower, <<"h","e","l","l","o">>)
           \/ includes(lower, <<"h","i">>)
           \/ includes(lower, <<"h","l","o">>)
        THEN GreetingReply
        ELSE IF includes(lower, <<"h","o","s","t","e","l">>)
             THEN HostelReply
             ELSE IF includes(lower, <<"a","d","m","i","s","s","i","o","n">>)
                  THEN AdmissionReply
                  ELSE GenericReply(message)

\* a faulty variant of context: the newest record comes first
contextNewestFirst(collegeData) ==
    join([i \in 1..Len(collegeData) |->
            collegeData[Len(collegeData) + 1 - i].title \o <<":", " ">> \o
            collegeData[Len(collegeData) + 1 - i].content], <<"\n">>)

\* line 67: collegeData.map(info => `${info.title}: ${info.content}`).join('\n')
context(collegeData) ==
    join([i \in 1..Len(collegeData) |->
            collegeData[i].title \o <<":", " ">> \o collegeData[i].content], <<"\n">>)

\* lines 70-96: the fixed template around the context
PromptHead == <<"You are RK, the official AI Assistant of RKSD College. ... College Information:\n">>
PromptTail == <<"\n\nInstructions: ... Style Examples: ...">>

systemPrompt(collegeData) == PromptHead \o context(collegeData) \o PromptTail

\* lines 106-121: the request sent to the chat-completion API
GroqRequest(collegeData, message) ==
    [messages |-> << [role |-> "system", content |-> systemPrompt(collegeData)],
                     [role |-> "user", content |-> message] >>,
     model |-> "llama-3.3-70b-versatile"]

AskIdle ==
    [pc |-> "idle", body |-> [hasMessage |-> FALSE, message |-> <<>>, language |-> Undefined],
     log |-> <<>>, groqCalls |-> <<>>, groq |-> "none",
     assistantResponse |-> DefaultReply, userMessageId |-> NoId, assistantMessageId |-> NoId,
     resps |-> <<>>]

\* the answers of the chat-completion API read by groqResponse.json()
GroqContents == {<<"Namaste! Main RK hoon.">>}

\* the request bodies of the model: one message for each canned reply, a body
\* with the empty message and a body without message
AskBodies ==
    { [hasMessage |-> TRUE, message |-> <<"H","e","l","l","o">>, language |-> Undefined],
      [hasMessage |-> TRUE, message |-> <<"H","o","s","t","e","l"," ","f","e","e">>, language |-> "hi"],
      [hasMessage |-> TRUE, message |-> <<"A","d","m","i","s","s","i","o","n">>, language |-> ""],
      [hasMessage |-> TRUE, message |-> <<"f","e","e","s">>, language |-> "hi"],
      [hasMessage |-> TRUE, message |-> <<>>, language |-> Undefined],
      [hasMessage |-> FALSE, message |-> <<>>, language |-> "hi"] }

\* one valid body and one that fails the parse
CoreAskBodies ==
    { [hasMessage |-> TRUE, message |-> <<"H","o","s","t","e","l"," ","f","e","e">>, language |-> "hi"],
      [hasMessage |-> FALSE, message |-> <<>>, language |-> "hi"] }

\* MemStorage's methods are async functions that never wait: the promise they
\* return is already resolved, so the code after `await storage.<method>()` runs
\* as a microtask, before any other request handler or fetch callback.  The
\* handler is therefore cut at the awaits of the chat-completion call only.

\* lines 56-63: a valid body: the user's message is stored
AskStoreUser(a, body, id) ==
    [a EXCEPT !.body = body, !.userMessageId = id, !.log = Append(@, "save_user")]

UserMessage(body) ==
    [content |-> body.message, role |-> "user", language |-> LanguageOrEn(body.language)]

\* lines 66-121: the prompt is built from the store as it is now and the
\* chat-completion API is called
AskCallGroq(a, collegeData) ==
    [a EXCEPT !.pc = "groq_fetch",
              !.groqCalls = Append(@, GroqRequest(collegeData, a.body.message)),
              !.log = Append(@, "call_api")]

\* lines 143-147: the reply is stored
SaveAssistant(a, reply, id) ==
    [a EXCEPT !.assistantResponse = reply, !.assistantMessageId = id,
              !.log = Append(@, "save_assistant")]

AssistantMessage(a, reply) ==
    [content |-> reply, role |-> "assistant", language |-> LanguageOrEn(a.body.language)]

\* lines 154-161: the catch block stores the 'technical difficulties' reply
AskStoreFallback(a, body, id) ==
    [a EXCEPT !.body = body, !.assistantResponse = TechnicalDifficultiesReply,
              !.assistantMessageId = id, !.log = Append(@, "save_fallback")]

\* a faulty variant of FallbackMessage: the reply is stored as a Hindi message
FallbackMessageInHindi ==
    [content |-> TechnicalDifficultiesReply, role |-> "assistant", language |-> "hi"]

FallbackMessage ==
    [content |-> TechnicalDifficultiesReply, role |-> "assistant", language |-> "en"]

\* a faulty variant of AskResponse: the id of the user's message is returned
AskResponseWithUserId(a) ==
    [status |-> 200, response |-> a.assistantResponse,
     messageId |-> IF a.userMessageId = NoId THEN a.assistantMessageId
                   ELSE a.userMessageId]

AskResponse(a) ==
    [status |-> 200, response |-> a.assistantResponse, messageId |-> a.assistantMessageId]

\* lines 149-152 and 162-165: res.json
AskRespond(a) ==
    [a EXCEPT !.pc = "done", !.resps = Append(@, AskResponse(a)),
              !.log = Append(@, "respond")]

\* the id of the next stored message
NewMessageId == NewId("message", Len(chatMessages) + 1)

\* the requests in flight that have stored a user message and no reply yet
PendingReplies ==
    Cardinality({q \in Slots : ask[q].pc \in {"groq_fetch", "groq_json", "groq_errtext"}})

\* a request arrives.  A valid body: the user's message is stored and the API
\* is called.  A body that fails the parse: the fallback reply is stored and sent.
\* The store is kept within cap messages
AskStartWithin(r, bodies, cap) ==
    /\ SlotFree(r)
    /\ Len(chatMessages) + PendingReplies + 2 <= cap
    /\ \E body \in bodies :
          IF askSchemaOk(body)
          THEN /\ chatMessages' = createChatMessage(chatMessages, NewMessageId, now,
                                                    UserMessage(body))
               /\ ask' = [ask EXCEPT ![r] =
                            AskCallGroq(AskStoreUser(ask[r], body, NewMessageId),
                                        collegeInfo)]
          ELSE /\ chatMessages' = createChatMessage(chatMessages, NewMessageId, now,
                                                    FallbackMessage)
               /\ ask' = [ask EXCEPT ![r] =
                            AskRespond(AskStoreFallback(ask[r], body, NewMessageId))]
    /\ UNCHANGED <<hookVars, env, pronunciationCorrections, users, collegeInfo, files, now, tts>>
    /\ httpResp' = NoResponse

AskStart(r, bodies) == AskStartWithin(r, bodies, MaxMessages)

\* a faulty variant of AskFinish: the reply is sent and never stored
AskFinishUnsaved(r, outcome, reply) ==
    /\ chatMessages' = chatMessages
    /\ ask' = [ask EXCEPT ![r] =
                 AskRespond([ask[r] EXCEPT !.groq = outcome,
                                           !.assistantResponse = reply,
                                           !.log = Append(@, "api_done")])]

\* the call has finished with the reply `reply`: the reply is stored and sent
AskFinish(r, outcome, reply) ==
    /\ chatMessages' = createChatMessage(chatMessages, NewMessageId, now,
                                         AssistantMessage(ask[r], reply))
    /\ ask' = [ask EXCEPT ![r] =
                 AskRespond(SaveAssistant([ask[r] EXCEPT !.groq = outcome,
                                                         !.log = Append(@, "api_done")],
                                          reply, NewMessageId))]

\* lines 139-141: the catch of the API call keeps the reply set at line 103
ReplyOnThrow(a) == a.assistantResponse

\* line 125: groqData.choices[0]?.message?.content || assistantResponse
ReplyOnOk(a, content) == IF content = <<>> THEN a.assistantResponse ELSE content

\* lines 127-137
ReplyOnNonOk(a) == KeywordReply(a.body.message)

\* await fetch('https://api.groq.com/...') settles: OK, non-OK, or it throws
GroqFetchSettles(r) ==
    /\ ask[r].pc = "groq_fetch"
    /\ \/ /\ ask' = [ask EXCEPT ![r].pc = "groq_json"]
          /\ UNCHANGED chatMessages
       \/ /\ ask' = [ask EXCEPT ![r].pc = "groq_errtext"]
          /\ UNCHANGED chatMessages
       \/ AskFinish(r, "threw", ReplyOnThrow(ask[r]))
    /\ UNCHANGED <<hookVars, env, pronunciationCorrections, users, collegeInfo, files, now, tts>>
    /\ httpResp' = NoResponse

\* await groqResponse.json() settles: with a reply, with an empty or missing
\* reply, or by throwing (also when choices is missing)
GroqJsonSettles(r) ==
    /\ ask[r].pc = "groq_json"
    /\ \/ \E content \in GroqContents \cup {<<>>} :
             AskFinish(r, "ok", ReplyOnOk(ask[r], content))
       \/ AskFinish(r, "jsonthrew", ReplyOnThrow(ask[r]))
    /\ UNCHANGED <<hookVars, env, pronunciationCorrections, users, collegeInfo, files, now, tts>>
    /\ httpResp' = NoResponse

\* await groqResponse.text() settles: with the text, or by throwing
GroqErrTextSettles(r) ==
    /\ ask[r].pc = "groq_errtext"
    /\ \/ AskFinish(r, "nonok", ReplyOnNonOk(ask[r]))
       \/ AskFinish(r, "textthrew", ReplyOnThrow(ask[r]))
    /\ UNCHANGED <<hookVars, env, pronunciationCorrections, users, collegeInfo, files, now, tts>>
    /\ httpResp' = NoResponse

\* the response has been delivered: the request and its locals are dropped
AskClose(r) ==
    /\ ask[r].pc = "done"
    /\ ask' = [ask EXCEPT ![r] = AskIdle]
    /\ UNCHANGED <<hookVars, env, pronunciationCorrections, users, chatMessages, collegeInfo, files,
                   now, tts>>
    /\ httpResp' = NoResponse

AskStep(r, bodies) ==
    \/ AskStart(r, bodies)
    \/ GroqFetchSettles(r)
    \/ GroqJsonSettles(r)
    \/ GroqErrTextSettles(r)
    \/ AskClose(r)


-----------------------------------------------------------------------------
(* The single-step routes and the remaining operations *)

\* GET /api/messages: storage.getChatMessages() with the default limit
GetMessages ==
    LET got == getChatMessages(chatMessages, DefaultLimit)
    IN  /\ chatMessages' = got.stored
        /\ httpResp' = [route |-> "messages", status |-> 200, body |-> got.result]
        /\ UNCHANGED <<hookVars, env, pronunciationCorrections, users, collegeInfo, files, now, tts, ask>>

\* the limits of the direct calls of getChatMessages: none, fewer than, as many
\* as and more than the stored messages
Limits == {0, 1, 2, DefaultLimit}

\* a call of storage.getChatMessages(limit); the list it returns is kept as the
\* body of the latest response
GetChatMessages ==
    \E limit \in Limits :
        LET got == getChatMessages(chatMessages, limit)
        IN  /\ chatMessages' = got.stored
            /\ httpResp' = [route |-> "getChatMessages", status |-> 200,
                            body |-> got.result, limit |-> limit]
            /\ UNCHANGED <<hookVars, env, pronunciationCorrections, users, collegeInfo, files, now,
                           tts, ask>>

\* a query parameter of GET /api/college-info: absent, or a string
NoParam == [given |-> FALSE, value |-> <<>>]
Param(text) == [given |-> TRUE, value |-> text]

\* the query strings of the model: <<category, search>>
CollegeInfoQueries ==
    { <<NoParam, NoParam>>,
      <<Param(<<"h","o","s","t","e","l">>), NoParam>>,
      <<Param(<<"H","o","s","t","e","l">>), Param(<<"F","A","C","U","L","T","Y">>)>>,
      <<Param(<<"h","o","s","t","e","l">>), Param(<<"F","A","C","U","L","T","Y">>)>>,
      <<Param(<<>>), Param(<<"h","o","s","t","e","l">>)>>,
      <<Param(<<"h","o","s","t","e","l">>), Param(<<>>)>> }

\* no parameter at all, and both parameters at once
CoreQueries ==
    { <<NoParam, NoParam>>,
      <<Param(<<"H","o","s","t","e","l">>), Param(<<"F","A","C","U","L","T","Y">>)>> }

\* if (param): the parameter is given and is not the empty string
Truthy(param) == param.given /\ param.value # <<>>

\* a faulty variant of CollegeInfoLookup: the category is looked at first
CollegeInfoLookupCategoryFirst(store, category, search) ==
    IF Truthy(category)
    THEN getCollegeInfoByCategory(store, category.value)
    ELSE IF Truthy(search)
         THEN searchCollegeInfo(store, search.value)
         ELSE store

\* lines 339-347: search, else category, else the whole store
CollegeInfoLookup(store, category, search) ==
    IF Truthy(search)
    THEN searchCollegeInfo(store, search.value)
    ELSE IF Truthy(category)
         THEN getCollegeInfoByCategory(store, category.value)
         ELSE store

\* GET /api/college-info
GetCollegeInfo(queries) ==
    /\ \E query \in queries :
          httpResp' = [route |-> "college-info", status |-> 200,
                       body |-> CollegeInfoLookup(collegeInfo, query[1], query[2]),
                       query |-> query]
    /\ UNCHANGED <<hookVars, env, pronunciationCorrections, users, chatMessages, collegeInfo, files,
                   now, tts, ask>>

\* GET /api/health: the uptime since serverStartTime (the clock starts at 0)
GetHealth ==
    /\ httpResp' = [route |-> "health", status |-> 200, body |-> [status |-> "ok", uptimeSeconds |-> now]]
    /\ UNCHANGED <<hookVars, env, pronunciationCorrections, users, chatMessages, collegeInfo, files,
                   now, tts, ask>>

\* the records createCollegeInfo is called with in the model
NewInfos ==
    { [category |-> <<"h","o","s","t","e","l">>, title |-> <<"M","e","s","s"," ","T","i","m","i","n","g","s">>,
       content |-> <<"M","e","s","s"," ","o","p","e","n","s"," ","a","t"," ","8">>, metadata |-> <<"null">>],
      [category |-> <<"l","i","b","r","a","r","y">>, title |-> <<"L","i","b","r","a","r","y">>,
       content |-> <<"B","o","o","k","s">>, metadata |-> <<"{}">>] }

\* the number of records created after startup
CreatedInfos == Len(collegeInfo) - Len(initializeCollegeData(files))

\* the calls made so far of the operations that no route reaches
DirectCalls == CreatedInfos + Cardinality(DOMAIN users) + Len(pronunciationCorrections)

\* storage.createCollegeInfo(info)
CreateCollegeInfo ==
    /\ DirectCalls < MaxDirectCalls
    /\ \E info \in NewInfos :
          collegeInfo' = createCollegeInfo(collegeInfo, NewId("info", Len(collegeInfo) + 1), info)
    /\ UNCHANGED <<hookVars, env, pronunciationCorrections, users, chatMessages, files, now, tts,
                   ask>>
    /\ httpResp' = NoResponse

\* storage.createUser(insertUser)
CreateUser ==
    /\ DirectCalls < MaxDirectCalls
    /\ \E name \in {"admin"} :
          users' = createUser(users, NewId("user", Cardinality(DOMAIN users) + 1),
                             [username |-> name, password |-> "pw"])
    /\ UNCHANGED <<hookVars, env, pronunciationCorrections, chatMessages, collegeInfo, files, now,
                   tts, ask>>
    /\ httpResp' = NoResponse

\* the corrections addPronunciationCorrection is called with in the model
NewCorrections ==
    { [original |-> <<"H","e","l","l","o">>, corrected |-> <<"H","a","l","l","o">>],
      [original |-> <<"h","a","i","n">>, corrected |-> <<"h","a","i">>] }

\* addPronunciationCorrection(original, corrected)
AddPronunciationCorrection ==
    /\ DirectCalls < MaxDirectCalls
    /\ \E c \in NewCorrections :
          pronunciationCorrections' =
              addPronunciationCorrection(pronunciationCorrections, c.original, c.corrected)
    /\ UNCHANGED <<hookVars, env, users, chatMessages, collegeInfo, files, now, tts, ask>>
    /\ httpResp' = NoResponse

\* time passes
Tick ==
    /\ now < MaxClock
    /\ now' = now + 1
    /\ UNCHANGED <<hookVars, env, pronunciationCorrections, users, chatMessages, collegeInfo, files,
                   tts, ask>>
    /\ httpResp' = NoResponse

-----------------------------------------------------------------------------
(* The hook useVoice of the client (src/client/src/hooks/use-voice.tsx) *)

\* what the page finds in window: neither constructor, a constructor property
\* that holds undefined, or a constructor
Windows == {"none", "empty", "SpeechRecognition"}

\* line 45-46: 'SpeechRecognition' in window || 'webkitSpeechRecognition' in window
browserSupportedIn(w) == w # "none"

\* the value of the state variable recognition before the effect has set it,
\* and the object the effect constructs
Null == "null"
TheRecognition == "recognition"

\* the texts a recognizer hears
Transcripts == {<<"h", "i">>}

\* the updates of the state queued since the latest render, one set for each
\* state variable: empty, or the value of its latest set call
NoUpdates == [isListening |-> {}, transcript |-> {}, recognition |-> {}]

\* the value of a state variable in the next render
Latest(queued, current) == IF queued = {} THEN current ELSE CHOOSE v \in queued : TRUE

\* what an operation of the hook did to the recognizer
Op(name, starts, stops, threw) ==
    [name |-> name, starts |-> starts, stops |-> stops, threw |-> threw]

\* line 24: SpeechRecognition.start(): starts an idle recognizer, and throws
\* (InvalidStateError) on one that has been started and has not ended yet
recognitionStart(status) ==
    IF status = "idle"
    THEN [status |-> "started", threw |-> FALSE]
    ELSE [status |-> status, threw |-> TRUE]

\* line 25: SpeechRecognition.stop(): a started recognizer stops listening and
\* is to deliver what it has; otherwise nothing happens
recognitionStop(status) == IF status = "started" THEN "stopping" ELSE status

\* lines 41-43: the first render of a component that uses the hook
useVoiceInit(windows) ==
    /\ window \in windows
    /\ phase = "rendered"
    /\ isListening = FALSE
    /\ transcript = <<>>
    /\ recognition = Null
    /\ pending = NoUpdates
    /\ recognizer = "absent"
    /\ called = Op("useVoice", 0, 0, FALSE)

\* lines 48-76: the effect after the first render
UseEffect ==
    /\ phase = "rendered"
    /\ phase' = "mounted"
    /\ called' = Op("useEffect", 0, 0, FALSE)
    /\ IF browserSupportedIn(window) /\ window # "empty"
       THEN /\ recognizer' = "idle"
            /\ pending' = [pending EXCEPT !.recognition = {TheRecognition}]
       ELSE UNCHANGED <<recognizer, pending>>
    /\ UNCHANGED <<window, isListening, transcript, recognition, serverVars>>

\* React renders the component again with the queued updates; the callbacks
\* of this render see the new values
Render ==
    /\ phase # "unmounted"
    /\ pending # NoUpdates
    /\ isListening' = Latest(pending.isListening, isListening)
    /\ transcript' = Latest(pending.transcript, transcript)
    /\ recognition' = Latest(pending.recognition, recognition)
    /\ pending' = NoUpdates
    /\ called' = Op("render", 0, 0, FALSE)
    /\ UNCHANGED <<window, phase, recognizer, serverVars>>

\* a faulty variant of startListeningRuns: a start while listening
startListeningRunsWhileListening(recog, listening) == recog # Null

\* line 86: startListening goes on past its first line
startListeningRuns(recog, listening) == ~(recog = Null \/ listening)

\* line 99: stopListening goes on past its first line
stopListeningRuns(recog, listening) == ~(recog = Null \/ ~listening)

\* lines 85-96: startListening, the callback of the latest render
StartListening ==
    /\ phase # "unmounted"
    /\ UNCHANGED <<window, phase, isListening, transcript, recognition, serverVars>>
    /\ IF startListeningRuns(recognition, isListening)
       THEN LET started == recognitionStart(recognizer)
            IN  /\ recognizer' = started.status
                /\ pending' = [pending EXCEPT
                      !.transcript = {<<>>},
                      !.isListening = IF started.threw THEN {FALSE} ELSE {TRUE}]
                /\ called' = Op("startListening", 1, 0, started.threw)
       ELSE /\ UNCHANGED <<recognizer, pending>>
            /\ called' = Op("startListening", 0, 0, FALSE)

\* lines 98-103: stopListening, the callback of the latest render
StopListening ==
    /\ phase # "unmounted"
    /\ UNCHANGED <<window, phase, isListening, transcript, recognition, serverVars>>
    /\ IF stopListeningRuns(recognition, isListening)
       THEN /\ recognizer' = recognitionStop(recognizer)
            /\ pending' = [pending EXCEPT !.isListening = {FALSE}]
            /\ called' = Op("stopListening", 0, 1, FALSE)
       ELSE /\ UNCHANGED <<recognizer, pending>>
            /\ called' = Op("stopListening", 0, 0, FALSE)

\* lines 105-107: resetTranscript
ResetTranscript ==
    /\ phase # "unmounted"
    /\ pending' = [pending EXCEPT !.transcript = {<<>>}]
    /\ called' = Op("resetTranscript", 0, 0, FALSE)
    /\ UNCHANGED <<window, phase, isListening, transcript, recognition, recognizer,
                   serverVars>>

\* the set calls of a handler of the recognizer; React drops those of a
\* component that is gone
SetByHandler(updates) ==
    pending' = IF phase = "unmounted" THEN pending ELSE updates

\* lines 61-65: onresult; a recognizer that is not continuous ends after its
\* result
OnResult ==
    /\ recognizer \in {"started", "stopping"}
    /\ recognizer' = "ending"
    /\ \E heard \in Transcripts :
          SetByHandler([pending EXCEPT !.transcript = {heard}, !.isListening = {FALSE}])
    /\ called' = Op("onresult", 0, 0, FALSE)
    /\ UNCHANGED <<window, phase, isListening, transcript, recognition, serverVars>>

\* lines 67-70: onerror
OnError ==
    /\ recognizer \in {"started", "stopping"}
    /\ recognizer' = "ending"
    /\ SetByHandler([pending EXCEPT !.isListening = {FALSE}])
    /\ called' = Op("onerror", 0, 0, FALSE)
    /\ UNCHANGED <<window, phase, isListening, transcript, recognition, serverVars>>

\* lines 72-74: onend
OnEnd ==
    /\ recognizer \in {"started", "stopping", "ending"}
    /\ recognizer' = "idle"
    /\ SetByHandler([pending EXCEPT !.isListening = {FALSE}])
    /\ called' = Op("onend", 0, 0, FALSE)
    /\ UNCHANGED <<window, phase, isListening, transcript, recognition, serverVars>>

\* lines 78-82: the cleanup of the effect when the component goes
Cleanup ==
    /\ phase = "mounted"
    /\ phase' = "unmounted"
    /\ IF recognizer = "absent"
       THEN /\ UNCHANGED recognizer
            /\ called' = Op("cleanup", 0, 0, FALSE)
       ELSE /\ recognizer' = recognitionStop(recognizer)
            /\ called' = Op("cleanup", 0, 1, FALSE)
    /\ UNCHANGED <<window, isListening, transcript, recognition, pending, serverVars>>

-----------------------------------------------------------------------------
(* The server: the state after the module-level new MemStorage() *)

ServerInit ==
    /\ env \in [cartesia : CartesiaKeys, eleven : ElevenLabsKeys]
    /\ files \in [college : FileStates, classes : FileStates]
    /\ pronunciationCorrections = <<>>
    /\ users = <<>>
    /\ chatMessages = <<>>
    /\ collegeInfo = initializeCollegeData(files)
    /\ now = 0
    /\ tts = [r \in Slots |-> TtsIdle]
    /\ ask = [r \in Slots |-> AskIdle]
    /\ httpResp = NoResponse

\* the server with no page open
Init == ServerInit /\ useVoiceInit({"none"})

\* the two POST routes and the direct calls, with both keys set, started
\* without the college file
InitServer ==
    /\ Init
    /\ env = [cartesia |-> "cartesia-key", eleven |-> "elevenlabs-key"]
    /\ files = [college |-> "missing", classes |-> "ok"]

Next ==
    \/ \E r \in ReqIds : TtsStep(r, CoreTtsBodies)
    \/ \E r \in ReqIds : AskStep(r, CoreAskBodies)
    \/ CreateCollegeInfo
    \/ CreateUser
    \/ AddPronunciationCorrection

Spec == InitServer /\ [][Next]_vars

\* the five routes and createCollegeInfo, with one of the two keys set,
\* started without the college file
InitRoutes ==
    /\ Init
    /\ env \in {[cartesia |-> "cartesia-key", eleven |-> Undefined],
                [cartesia |-> Undefined, eleven |-> "elevenlabs-key"]}
    /\ files = [college |-> "missing", classes |-> "ok"]

NextRoutes ==
    \/ \E r \in ReqIds : TtsStep(r, CoreTtsBodies)
    \/ \E r \in ReqIds : AskStep(r, CoreAskBodies)
    \/ GetMessages
    \/ GetCollegeInfo(CoreQueries)
    \/ GetHealth
    \/ CreateCollegeInfo

SpecRoutes == InitRoutes /\ [][NextRoutes]_vars

\* the text-to-speech route alone, under every configuration of the keys, with
\* the correction table changing under it
InitTts == Init /\ files = [college |-> "missing", classes |-> "ok"]

NextTts ==
    \/ \E r \in ReqIds : TtsStep(r, TtsBodies)
    \/ AddPronunciationCorrection

SpecTts == InitTts /\ [][NextTts]_vars

\* a provider call of the request of slot r, or the reading of its body, settles
TtsSettles(r) ==
    \/ CartesiaFetchSettles(r)
    \/ CartesiaBodySettles(r)
    \/ CartesiaErrTextSettles(r)
    \/ ElevenLabsFetchSettles(r)
    \/ ElevenLabsBodySettles(r)
    \/ ElevenLabsErrTextSettles(r)

\* the text-to-speech route when every provider call returns or throws in the
\* end
SpecTtsLive == SpecTts /\ \A r \in ReqIds : WF_vars(TtsSettles(r))

\* the chat route, with reads of the messages and new facts in between
InitAsk ==
    /\ Init
    /\ env = [cartesia |-> Undefined, eleven |-> Undefined]
    /\ files \in {[college |-> "ok", classes |-> "ok"],
                  [college |-> "ok", classes |-> "missing"]}

NextAsk ==
    \/ \E r \in ReqIds : AskStep(r, AskBodies)
    \/ GetMessages
    \/ CreateCollegeInfo
    \/ Tick

SpecAsk == InitAsk /\ [][NextAsk]_vars

\* the storage under every state of the two bundled files
InitStore ==
    /\ Init
    /\ env = [cartesia |-> Undefined, eleven |-> Undefined]

NextStore ==
    \/ GetCollegeInfo(CollegeInfoQueries)
    \/ CreateCollegeInfo
    \/ \E r \in ReqIds : AskStep(r, CoreAskBodies)

SpecStore == InitStore /\ [][NextStore]_vars

\* the lookups of the fact store alone: GET /api/college-info and
\* createCollegeInfo under every state of the two bundled files
NextLookup ==
    \/ GetCollegeInfo(CollegeInfoQueries)
    \/ CreateCollegeInfo

SpecLookup == InitStore /\ [][NextLookup]_vars

\* the chat history: requests that store messages, the clock, and calls of
\* getChatMessages with every limit
InitMessages ==
    /\ Init
    /\ env = [cartesia |-> Undefined, eleven |-> Undefined]
    /\ files = [college |-> "missing", classes |-> "ok"]

NextMessages ==
    \/ \E r \in ReqIds : AskStep(r, CoreAskBodies)
    \/ GetChatMessages
    \/ Tick

SpecMessages == InitMessages /\ [][NextMessages]_vars

\* a text longer than the limit, which the corrections make longer still, and
\* the same text one character shorter than the limit
LongText(n) == <<"B", ".", "A", " ">> \o [i \in 1..(n - 4) |-> "x"]

LimitBodies ==
    { [hasText |-> TRUE, text |-> LongText(TtsTextLimit + 1), voiceId |-> "v1",
       language |-> Undefined],
      [hasText |-> TRUE, text |-> LongText(TtsTextLimit - 3), voiceId |-> "v1",
       language |-> Undefined],
      [hasText |-> TRUE, text |-> LongText(TtsTextLimit - 1), voiceId |-> "v1",
       language |-> Undefined],
      [hasText |-> TRUE, text |-> <<"H","e","l","l","o">>, voiceId |-> "v1",
       language |-> Undefined] }

\* POST /api/tts with texts around the limit, both keys set: one request at a
\* time, as the text of a request depends on no other request
NextLimit == TtsStep(1, LimitBodies)

SpecLimit == InitServer /\ [][NextLimit]_vars

\* POST /api/tts with bodies that differ in their language, both keys set
NextLanguage == \E r \in ReqIds : TtsStep(r, LanguageBodies)

SpecLanguage == InitServer /\ [][NextLanguage]_vars

\* the valid request bodies
ValidAskBodies == {body \in CoreAskBodies : askSchemaOk(body)}

\* POST /api/ask requests that overlap: a request arrives while others wait
\* for the chat-completion API, and the calls settle in any order
InitInFlight == InitMessages

NextInFlight ==
    \/ \E r \in Slots :
          \/ AskStartWithin(r, ValidAskBodies, 2 * MaxInFlight)
          \/ GroqFetchSettles(r)
          \/ GroqJsonSettles(r)
          \/ GroqErrTextSettles(r)
          \/ AskClose(r)
    \/ Tick

SpecInFlight == InitInFlight /\ [][NextInFlight]_vars

\* a page that uses the hook, in every browser: the calls of its callbacks,
\* the events of the recognizer and the renders, in any order
InitVoice ==
    /\ ServerInit
    /\ env = [cartesia |-> Undefined, eleven |-> Undefined]
    /\ files = [college |-> "missing", classes |-> "ok"]
    /\ useVoiceInit(Windows)

NextVoice ==
    \/ UseEffect
    \/ Render
    \/ StartListening
    \/ StopListening
    \/ ResetTranscript
    \/ OnResult
    \/ OnError
    \/ OnEnd
    \/ Cleanup

SpecVoice == InitVoice /\ [][NextVoice]_vars

-----------------------------------------------------------------------------
(* Properties of POST /api/tts, under SpecTts *)

\* the calls of a request made to one provider
CallsTo(calls, provider) == {i \in 1..Len(calls) : calls[i].provider = provider}

\* the outcomes of an attempt that did not produce audio
Unsuccessful == {"skipped", "nonok", "threw", "bodythrew"}

\* the request of slot r passed the parse and the empty-text check
TtsValid(r) == ttsSchemaOk(tts[r].body) /\ Len(trim(tts[r].body.text)) > 0

\* C1: the providers are attempted in the order Cartesia, ElevenLabs: a call to
\* ElevenLabs never precedes a call to Cartesia, ElevenLabs is contacted only
\* when the Cartesia attempt did not succeed, and Cartesia is skipped only
\* when its key is unset or the placeholder.
C1_ProviderOrder ==
    \A r \in ReqIds :
        LET calls == tts[r].calls
        IN  /\ \A i \in CallsTo(calls, "elevenlabs") :
                 /\ tts[r].cartesia \in Unsuccessful
                 /\ \A j \in CallsTo(calls, "cartesia") : j < i
            /\ tts[r].cartesia = "skipped" =>
                 /\ ~KeyConfigured(env.cartesia, CartesiaPlaceholder)
                 /\ CallsTo(calls, "cartesia") = {}
            /\ tts[r].cartesia \in {"nonok", "threw", "bodythrew", "ok"} =>
                 /\ KeyConfigured(env.cartesia, CartesiaPlaceholder)
                 /\ calls[1].provider = "cartesia"

\* C1: ElevenLabs is being contacted after Cartesia answered non-OK
C1_Witness ==
    \E r \in ReqIds :
        /\ tts[r].pc = "eleven_fetch"
        /\ tts[r].cartesia = "nonok"
        /\ Len(tts[r].calls) = 2

\* C2: an audio response carries the buffer of the first provider, in the order
\* Cartesia, ElevenLabs, whose attempt succeeded, with that provider's name and
\* content type; ElevenLabs' audio is never sent when Cartesia succeeded.
C2_FirstSuccessfulAudio ==
    \A r \in ReqIds :
        \A i \in 1..Len(tts[r].resps) :
            LET resp == tts[r].resps[i]
            IN  resp.status = 200 =>
                  /\ resp.audio \in Buffers
                  /\ IF tts[r].cartesia = "ok"
                     THEN /\ resp = AudioResponse("cartesia", "audio/wav",
                                                  tts[r].cartesiaAudio)
                          /\ tts[r].eleven = "none"
                          /\ CallsTo(tts[r].calls, "elevenlabs") = {}
                     ELSE /\ tts[r].eleven = "ok"
                          /\ resp = AudioResponse("elevenlabs", "audio/mpeg",
                                                  tts[r].elevenAudio)

\* C2: ElevenLabs' audio is returned after Cartesia failed
C2_Witness ==
    \E r \in ReqIds :
        /\ tts[r].pc = "done"
        /\ tts[r].cartesia = "threw"
        /\ tts[r].resps = <<AudioResponse("elevenlabs", "audio/mpeg", "audioB")>>

\* C3: a valid request for which neither provider produced audio is answered
\* with 503 ALL_TTS_PROVIDERS_FAILED and nothing else, without audio.
C3_TerminalFailure ==
    \A r \in ReqIds :
        ( /\ tts[r].pc = "done"
          /\ TtsValid(r)
          /\ tts[r].cartesia # "ok"
          /\ tts[r].eleven # "ok" )
        => /\ tts[r].cartesia \in Unsuccessful
           /\ tts[r].eleven \in Unsuccessful
           /\ tts[r].resps = <<ErrorResponse(503, "ALL_TTS_PROVIDERS_FAILED")>>
           /\ tts[r].resps[1].audio = NoAudio

\* C3: Cartesia was skipped, ElevenLabs answered non-OK, and the request ended
C3_Witness ==
    \E r \in ReqIds :
        /\ tts[r].pc = "done"
        /\ TtsValid(r)
        /\ tts[r].cartesia = "skipped"
        /\ tts[r].eleven = "nonok"

\* the ElevenLabs section of the handler was reached: its key test failed or
\* its call was made
ElevenLabsReached(r) ==
    tts[r].eleven = "skipped" \/ CallsTo(tts[r].calls, "elevenlabs") # {}

\* C4: an exception in the Cartesia attempt (the call or the reading of its
\* body) does not end the request and gives no 500: the ElevenLabs section runs
\* next; an exception in the ElevenLabs attempt gives the 503 response; no
\* request that reached a provider section is answered with 500.
C4_AttemptsCatchTheirExceptions ==
    \A r \in ReqIds :
        /\ tts[r].cartesia \in {"threw", "bodythrew"} =>
              /\ ElevenLabsReached(r)
              /\ \A i \in 1..Len(tts[r].resps) : tts[r].resps[i].status # 500
        /\ tts[r].eleven \in {"threw", "bodythrew"} =>
              /\ tts[r].pc = "done"
              /\ tts[r].resps = <<ErrorResponse(503, "ALL_TTS_PROVIDERS_FAILED")>>
        /\ (tts[r].cartesia # "none" \/ tts[r].calls # <<>>) =>
              \A i \in 1..Len(tts[r].resps) : tts[r].resps[i].status # 500

\* C4: reading Cartesia's body threw, then the ElevenLabs call threw
C4_Witness ==
    \E r \in ReqIds :
        /\ tts[r].pc = "done"
        /\ tts[r].cartesia = "bodythrew"
        /\ tts[r].eleven = "threw"

-----------------------------------------------------------------------------
(* Properties of the requests, under Spec *)

\* C5: no retries: a text-to-speech request contacts each provider at most
\* once and a chat request contacts the chat-completion API at most once.
C5_NoRetries ==
    \A r \in ReqIds :
        /\ Cardinality(CallsTo(tts[r].calls, "cartesia")) <= 1
        /\ Cardinality(CallsTo(tts[r].calls, "elevenlabs")) <= 1
        /\ Len(tts[r].calls) <= 2
        /\ Len(ask[r].groqCalls) <= 1

\* C5: a chat request whose API call threw has been answered, and a later
\* text-to-speech request has ended after both of its providers failed
C5_Witness ==
    \E r \in ReqIds :
        /\ tts[r].pc = "done"
        /\ Len(tts[r].calls) = 2
        /\ tts[r].cartesia = "nonok"
        /\ tts[r].eleven = "threw"
        /\ Len(chatMessages) = 2
        /\ chatMessages[2].content = DefaultReply

\* a step of a POST /api/tts request
TtsStepTaken == tts' # tts

\* C6: the steps of a text-to-speech request leave the stored chat messages,
\* the fact store, the users and the correction table as they are.
C6_TtsKeepsNoState == [][TtsStepTaken => UNCHANGED storeVars]_vars

\* C6: a request has been answered with audio while messages and a user are
\* stored
C6_Witness ==
    \E r \in ReqIds :
        /\ tts[r].pc = "done"
        /\ tts[r].resps[1].status = 200
        /\ chatMessages # <<>>
        /\ DOMAIN users # {}
        /\ collegeInfo # <<>>

-----------------------------------------------------------------------------
(* Properties of POST /api/ask, under SpecAsk *)

StepsOfValidRequest == <<"save_user", "call_api", "api_done", "save_assistant", "respond">>
StepsOfRejectedRequest == <<"save_fallback", "respond">>

IsPrefix(s, t) == Len(s) <= Len(t) /\ SubSeq(t, 1, Len(s)) = s

\* the places of the stored message with the given id
PlacesOf(msgs, id) == {i \in 1..Len(msgs) : msgs[i].id = id}

\* the request of slot r has stored its user message and not yet its reply
AwaitingReply(r) == ask[r].pc \in {"groq_fetch", "groq_json", "groq_errtext"}

\* C7 (states): the steps of a request are taken in the order store the user
\* message, call the API, store the reply, respond; while the call is under way
\* the user message is stored and no reply is; once the response is sent both
\* are stored, the reply being the text of the response.
C7_StepsInOrder ==
    \A r \in ReqIds :
        /\ IsPrefix(ask[r].log, StepsOfValidRequest)
           \/ IsPrefix(ask[r].log, StepsOfRejectedRequest)
        /\ ask[r].groqCalls # <<>> =>
              \E i \in PlacesOf(chatMessages, ask[r].userMessageId) :
                  /\ chatMessages[i].role = "user"
                  /\ chatMessages[i].content = ask[r].body.message
        /\ AwaitingReply(r) =>
              /\ ask[r].assistantMessageId = NoId
              /\ ask[r].resps = <<>>
        /\ ask[r].resps # <<>> =>
              /\ Len(ask[r].resps) = 1
              /\ \E j \in PlacesOf(chatMessages, ask[r].assistantMessageId) :
                    /\ chatMessages[j].role = "assistant"
                    /\ chatMessages[j].content = ask[r].resps[1].response
                    /\ \A i \in PlacesOf(chatMessages, ask[r].userMessageId) :
                          chatMessages[i].timestamp <= chatMessages[j].timestamp

\* C7 (steps): in the step that completes a valid request the store holds the
\* user message at an earlier place than the reply.
C7_UserThenAssistant ==
    \A r \in ReqIds :
        (ask[r].pc # "done" /\ ask'[r].pc = "done" /\ askSchemaOk(ask'[r].body)) =>
            /\ PlacesOf(chatMessages', ask'[r].userMessageId) # {}
            /\ PlacesOf(chatMessages', ask'[r].assistantMessageId) = {Len(chatMessages')}
            /\ \A i \in PlacesOf(chatMessages', ask'[r].userMessageId) :
                  i < Len(chatMessages')

\* C7: a valid POST /api/ask stores the user message, then calls the API, then
\* stores the reply, then responds, and on completion the store holds the user
\* message followed by the reply.
C7_AskOrder == []C7_StepsInOrder /\ [][C7_UserThenAssistant]_vars

\* C7: a request whose API call answered non-OK has completed, later than it
\* began
C7_Witness ==
    \E r \in ReqIds :
        /\ ask[r].pc = "done"
        /\ ask[r].groq = "nonok"
        /\ ask[r].log = StepsOfValidRequest
        /\ Len(chatMessages) = 2
        /\ chatMessages[1].timestamp < chatMessages[2].timestamp

\* the outcomes of the chat-completion call that are failures
GroqFailures == {"nonok", "textthrew", "threw", "jsonthrew"}

\* C8 (as stated): after a failed call, non-OK or thrown, the reply is the
\* canned reply selected by keyword from the user's message.
C8_CannedReplyOnEveryFailure ==
    \A r \in ReqIds :
        ask[r].groq \in GroqFailures =>
            ask[r].assistantResponse = KeywordReply(ask[r].body.message)

-----------------------------------------------------------------------------
(* Properties of the storage at startup, under SpecStore *)

\* the records of a store without their ids
WithoutIds(store) ==
    [i \in 1..Len(store) |->
        [category |-> store[i].category, title |-> store[i].title,
         content |-> store[i].content, metadata |-> store[i].metadata]]

FallbackTitle == <<"C","o","l","l","e","g","e"," ","I","n","f","o","r","m","a","t","i","o","n">>

\* the store is `loaded` followed by n records created later
LoadedThenCreated(loaded, n) ==
    /\ Len(collegeInfo) = Len(loaded) + n
    /\ WithoutIds(SubSeq(collegeInfo, 1, Len(loaded))) = loaded
    /\ \A i \in Len(loaded) + 1..Len(collegeInfo) : WithoutIds(collegeInfo)[i] \in NewInfos

\* C10: the store begins with the result of the one load at construction: every
\* record derived from the two files when both were read and parsed, else the
\* single record 'College Information'; it is never empty, never a mix of
\* the two, and whatever follows was created later, not loaded again.
C10_LoadedOnce ==
    /\ collegeInfo # <<>>
    /\ \E n \in 0..MaxDirectCalls :
          IF files.college = "ok" /\ files.classes = "ok"
          THEN LoadedThenCreated(defaultData(collegeInfoData, classesData), n)
          ELSE /\ LoadedThenCreated(basicData, n)
               /\ Len(basicData) = 1
               /\ collegeInfo[1].title = FallbackTitle
               /\ \A i \in 2..Len(collegeInfo) : collegeInfo[i].title # FallbackTitle

\* C10: the college file was read, the class file was not of the expected
\* shape, and a record has been created since
C10_Witness ==
    /\ files = [college |-> "ok", classes |-> "wrong_shape"]
    /\ Len(collegeInfo) = 2
    /\ collegeInfo[1].title = FallbackTitle
    /\ httpResp.route = "college-info"

-----------------------------------------------------------------------------
(* Properties of the fact store under the five routes, under SpecRoutes *)

\* a step that handles an HTTP request of one of the five routes
HttpStepTaken == tts' # tts \/ ask' # ask \/ httpResp'.route # "none"

\* C9: the fact store is append-only: a step of an HTTP request leaves it as it
\* is, and any step that changes it appends exactly one record at its end.
C9_FactStoreAppendOnly ==
    [][ /\ HttpStepTaken => collegeInfo' = collegeInfo
        /\ collegeInfo' # collegeInfo =>
              /\ Len(collegeInfo') = Len(collegeInfo) + 1
              /\ SubSeq(collegeInfo', 1, Len(collegeInfo)) = collegeInfo ]_vars

\* C9: GET /api/college-info returns the store with a record created after
\* startup behind the loaded one
C9_Witness ==
    /\ CreatedInfos = 1
    /\ httpResp.route = "college-info"
    /\ httpResp.body = collegeInfo
    /\ Len(collegeInfo) = 2
    /\ chatMessages # <<>>

-----------------------------------------------------------------------------
(* Properties of the fact-store lookups, under SpecLookup *)

\* result lists the records of store at the given places, each once, in the
\* order of the store
SelectedInOrder(result, store, places) ==
    /\ Len(result) = Cardinality(places)
    /\ \A p \in places : result[Cardinality({q \in places : q <= p})] = store[p]

\* the places of the records whose category is exactly c
CategoryPlaces(store, c) == {i \in 1..Len(store) : store[i].category = c}

\* the categories looked up: of loaded records, of a created record, in
\* another case, and of no record
ProbeCategories ==
    { <<"h","o","s","t","e","l">>, <<"H","o","s","t","e","l">>,
      <<"a","c","t","i","v","i","t","i","e","s">>, <<"l","i","b","r","a","r","y">>,
      <<"c","o","l","l","e","g","e">>, <<"h","o","s","t">>, <<>> }

\* C11: getCollegeInfoByCategory(c) returns exactly the records whose category
\* equals c, case-sensitively, each once and in the order of the store, and the
\* empty list when there is none.
C11_ByCategoryExact ==
    \A c \in ProbeCategories :
        LET result == getCollegeInfoByCategory(collegeInfo, c)
        IN  /\ SelectedInOrder(result, collegeInfo, CategoryPlaces(collegeInfo, c))
            /\ CategoryPlaces(collegeInfo, c) = {} => result = <<>>

\* C11: GET /api/college-info?category=hostel answered with the loaded hostel
\* record and the one created later, which are not neighbours in the store
C11_Witness ==
    /\ httpResp.route = "college-info"
    /\ httpResp.body = getCollegeInfoByCategory(collegeInfo, <<"h","o","s","t","e","l">>)
    /\ Len(httpResp.body) = 2
    /\ Len(collegeInfo) > 2
    /\ collegeInfo[Len(collegeInfo)].category = <<"h","o","s","t","e","l">>
    /\ collegeInfo[Len(collegeInfo) - 1].category # <<"h","o","s","t","e","l">>

\* w occurs in s as a run of neighbouring characters
Occurs(w, s) == \E k \in 1..(Len(s) - Len(w) + 1) : SubSeq(s, k, k + Len(w) - 1) = w

\* the places of the records that hold q, in lower case, in one of their
\* lower-cased fields
SearchPlaces(store, q) ==
    {i \in 1..Len(store) :
        \/ Occurs(toLowerCase(q), toLowerCase(store[i].title))
        \/ Occurs(toLowerCase(q), toLowerCase(store[i].content))
        \/ Occurs(toLowerCase(q), toLowerCase(store[i].category))}

\* the queries: in lower and upper case, matching a title and a category at
\* once, matching content only, matching nothing
ProbeQueries ==
    { <<"h","o","s","t","e","l">>, <<"H","O","S","T","E","L">>,
      <<"L","i","b","r","a","r","y">>, <<"w","i","f","i">>,
      <<"F","A","C","U","L","T","Y">>, <<"z","z","z">> }

\* C12: searchCollegeInfo(q) returns exactly the records for which the
\* lower-cased q occurs in the lower-cased title, content or category, each
\* once and in the order of the store.
C12_SearchExact ==
    \A q \in ProbeQueries :
        SelectedInOrder(searchCollegeInfo(collegeInfo, q), collegeInfo,
                        SearchPlaces(collegeInfo, q))

\* C12: GET /api/college-info?search=hostel answered with several records, the
\* last of them created after startup and matching in title and category
C12_Witness ==
    /\ httpResp.route = "college-info"
    /\ httpResp.body = searchCollegeInfo(collegeInfo, <<"h","o","s","t","e","l">>)
    /\ Len(httpResp.body) >= 3
    /\ CreatedInfos = 1
    /\ httpResp.body[Len(httpResp.body)] = collegeInfo[Len(collegeInfo)]

-----------------------------------------------------------------------------
(* Properties of the prompt of POST /api/ask, under SpecAsk *)

\* the line of a record: its title, a colon and a space, its content
RecordLine(info) == info.title \o <<":", " ">> \o info.content

\* the lines of the records from place i on, a newline between two of them
RECURSIVE LinesFrom(_, _)
LinesFrom(store, i) ==
    IF i > Len(store) THEN <<>>
    ELSE IF i = Len(store) THEN RecordLine(store[i])
         ELSE RecordLine(store[i]) \o <<"\n">> \o LinesFrom(store, i + 1)

\* the number of newlines of a text
Newlines(text) == Cardinality({k \in 1..Len(text) : text[k] = "\n"})

\* the request of slot r made its call in this step
CallMade(r) == Len(ask'[r].groqCalls) = Len(ask[r].groqCalls) + 1

\* C13: the call of POST /api/ask carries two messages: the system prompt, which
\* is the fixed template around one line 'title: content' per record of the
\* fact store as it is in that step, in store order, joined by newlines; and
\* the user's message, alone, under the role user.
C13_PromptHoldsTheStore ==
    [][ \A r \in ReqIds :
          CallMade(r) =>
            LET request == ask'[r].groqCalls[Len(ask'[r].groqCalls)]
            IN  /\ Len(request.messages) = 2
                /\ request.messages[1] =
                      [role |-> "system",
                       content |-> PromptHead \o LinesFrom(collegeInfo, 1) \o PromptTail]
                /\ request.messages[2] =
                      [role |-> "user", content |-> ask'[r].body.message]
                /\ Newlines(LinesFrom(collegeInfo, 1)) = Len(collegeInfo) - 1
                /\ collegeInfo' = collegeInfo ]_vars

\* C13: a call is under way whose prompt holds the loaded records and the one
\* created before the request arrived
C13_Witness ==
    \E r \in ReqIds :
        /\ ask[r].pc = "groq_fetch"
        /\ CreatedInfos = 1
        /\ Len(collegeInfo) > 2
        /\ ask[r].groqCalls[1].messages[1].content =
               PromptHead \o LinesFrom(collegeInfo, 1) \o PromptTail

-----------------------------------------------------------------------------
(* Properties of the responses of POST /api/tts, under SpecTts *)

\* the text of the request of slot r is empty or whitespace only, and the
\* rest of its body is as the schema wants it
BlankText(r) ==
    /\ tts[r].body.hasText
    /\ trim(tts[r].body.text) = <<>>
    /\ tts[r].body.voiceId # Undefined
    /\ tts[r].body.language \in LanguageEnum \cup {Undefined}

\* C14 (as stated): a request whose text is empty or only whitespace is
\* answered with 400 EMPTY_TEXT, and no provider is contacted for it.
C14_BlankTextIs400 ==
    \A r \in ReqIds :
        (tts[r].pc = "done" /\ BlankText(r)) =>
            /\ tts[r].resps = <<ErrorResponse(400, "EMPTY_TEXT")>>
            /\ tts[r].calls = <<>>

\* the four responses of the route
TtsResponseKinds(resp) ==
    \/ /\ resp.status = 200
       /\ resp.audio \in Buffers
       /\ resp.provider \in {"cartesia", "elevenlabs"}
    \/ resp = ErrorResponse(400, "EMPTY_TEXT")
    \/ resp = ErrorResponse(500, "SERVER_ERROR")
    \/ resp = ErrorResponse(503, "ALL_TTS_PROVIDERS_FAILED")

\* the request of slot r waits for a provider
TtsWaiting(r) == tts[r].pc \notin {"idle", "done"}

\* C15 (states): a request has sent no response while it waits for a provider
\* and exactly one, of the four kinds, once it has ended.
C15_AtMostOneResponse ==
    \A r \in ReqIds :
        /\ Len(tts[r].resps) <= 1
        /\ TtsWaiting(r) => tts[r].resps = <<>>
        /\ tts[r].pc = "done" =>
              /\ Len(tts[r].resps) = 1
              /\ TtsResponseKinds(tts[r].resps[1])

\* C15: every POST /api/tts request ends with exactly one response, one of 200
\* audio, 400 EMPTY_TEXT, 500 SERVER_ERROR and 503 ALL_TTS_PROVIDERS_FAILED,
\* when every provider call returns or throws in the end.
C15_ExactlyOneResponse ==
    /\ []C15_AtMostOneResponse
    /\ \A r \in ReqIds : TtsWaiting(r) ~> (tts[r].pc = "done")

\* C15: a request has ended with 503 after both providers were called, the
\* second of them answering non-OK
C15_Witness ==
    \E r \in ReqIds :
        /\ tts[r].pc = "done"
        /\ Len(tts[r].calls) = 2
        /\ tts[r].eleven = "nonok"
        /\ tts[r].resps = <<ErrorResponse(503, "ALL_TTS_PROVIDERS_FAILED")>>

-----------------------------------------------------------------------------
(* Properties of the messages of POST /api/ask, under SpecAsk *)

\* the number of entries of a log that are among the given events
CountOf(log, events) == Cardinality({i \in 1..Len(log) : log[i] \in events})

\* the messages a request has stored, by its log
Saves(log) == CountOf(log, {"save_user", "save_assistant", "save_fallback"})

\* C16 (states): the messageId of a 200 response is the id of exactly one stored
\* message, whose role is assistant and whose content is the response text; a
\* request has stored at most one user message and at most one reply.
C16_ResponseNamesStoredReply ==
    \A r \in ReqIds :
        /\ \A k \in 1..Len(ask[r].resps) :
              LET resp == ask[r].resps[k]
              IN  resp.status = 200 =>
                    /\ Cardinality(PlacesOf(chatMessages, resp.messageId)) = 1
                    /\ \A j \in PlacesOf(chatMessages, resp.messageId) :
                          /\ chatMessages[j].role = "assistant"
                          /\ chatMessages[j].content = resp.response
        /\ CountOf(ask[r].log, {"save_user"}) <= 1
        /\ CountOf(ask[r].log, {"save_assistant", "save_fallback"}) <= 1

\* C16 (steps): a step of a request stores as many messages as it logs, and no
\* other step stores or removes a message.
C16_StoresWhatItLogs ==
    /\ \A r \in ReqIds :
          (ask'[r] # ask[r] /\ ask'[r].pc # "idle") =>
              Len(chatMessages') = Len(chatMessages) + Saves(ask'[r].log)
                                       - Saves(ask[r].log)
    /\ (\A r \in ReqIds : ask'[r] = ask[r] \/ ask'[r].pc = "idle") =>
          Len(chatMessages') = Len(chatMessages)

\* C16: the messageId of every 200 response of POST /api/ask identifies a stored
\* assistant message whose content is the response text, and each request
\* stores at most one user message and at most one assistant message.
C16_MessageIdOfReply == []C16_ResponseNamesStoredReply /\ [][C16_StoresWhatItLogs]_vars

\* C16: the API answered with a reply, the request was answered, and a later
\* GET /api/messages has moved the stored reply to the first place
C16_Witness ==
    \E r \in ReqIds :
        /\ ask[r].pc = "done"
        /\ ask[r].groq = "ok"
        /\ ask[r].resps[1].response \in GroqContents
        /\ Len(chatMessages) = 2
        /\ PlacesOf(chatMessages, ask[r].resps[1].messageId) = {1}


\* the request of slot r was started with a body that fails askSchema.parse
Rejected(r) == ask[r].pc # "idle" /\ ~askSchemaOk(ask[r].body)

\* C17 (states): a request whose body fails validation makes no call to the API
\* and is answered 200 with the 'technical difficulties' reply, which is stored
\* as an assistant message of language 'en'; it has stored no user message; and
\* no request is answered with another status than 200.
C17_RejectedGetsFallback ==
    \A r \in ReqIds :
        /\ Rejected(r) =>
              /\ ask[r].groqCalls = <<>>
              /\ ask[r].groq = "none"
              /\ ask[r].log = StepsOfRejectedRequest
              /\ ask[r].userMessageId = NoId
              /\ Len(ask[r].resps) = 1
              /\ ask[r].resps[1].status = 200
              /\ ask[r].resps[1].response = TechnicalDifficultiesReply
              /\ \E j \in PlacesOf(chatMessages, ask[r].resps[1].messageId) :
                    /\ chatMessages[j].role = "assistant"
                    /\ chatMessages[j].language = "en"
                    /\ chatMessages[j].content = TechnicalDifficultiesReply
        /\ \A k \in 1..Len(ask[r].resps) : ask[r].resps[k].status = 200

\* C17 (steps): the step that takes a body failing validation appends the
\* fallback reply to the store and nothing else.
C17_OnlyTheFallbackIsStored ==
    \A r \in ReqIds :
        (ask[r].pc = "idle" /\ ask'[r].pc # "idle" /\ ~askSchemaOk(ask'[r].body)) =>
            /\ Len(chatMessages') = Len(chatMessages) + 1
            /\ SubSeq(chatMessages', 1, Len(chatMessages)) = chatMessages
            /\ chatMessages'[Len(chatMessages')].role = "assistant"
            /\ chatMessages'[Len(chatMessages')].id = ask'[r].resps[1].messageId

-----------------------------------------------------------------------------
(* Properties of getChatMessages, under SpecMessages *)

\* the stored messages in the order of their creation: the n-th message
\* created has the id NewId("message", n), and no message is ever removed
CreationOrder(msgs) ==
    [n \in 1..Len(msgs) |->
        msgs[CHOOSE i \in 1..Len(msgs) : msgs[i].id = NewId("message", n)]]

\* the min(limit, n) most recently created messages, oldest first
LastCreated(msgs, limit) ==
    LET n == Len(msgs)
        k == IF limit < n THEN limit ELSE n
    IN  SubSeq(CreationOrder(msgs), n - k + 1, n)

\* a list returned by getChatMessages is the latest response
Listed == httpResp.route = "getChatMessages"

\* C18 (as stated): getChatMessages(limit) returns the min(limit, n) most
\* recently created messages, oldest first, in the order of their creation,
\* also when messages have the same timestamp.
C18_LastCreatedOldestFirst ==
    Listed => httpResp.body = LastCreated(chatMessages, httpResp.limit)

\* C19 (as stated): a call of getChatMessages leaves the stored sequence as it
\* is, contents and order, and two calls with no createChatMessage in between
\* return the same list.
C19_ReadLeavesStore ==
    [][ httpResp'.route = "getChatMessages" =>
            /\ chatMessages' = chatMessages
            /\ (Listed /\ httpResp'.limit = httpResp.limit) =>
                   httpResp'.body = httpResp.body ]_vars


-----------------------------------------------------------------------------
(* Properties of overlapping POST /api/ask requests, under SpecInFlight *)

\* the number of stored messages of a role
CountRole(msgs, role) == Cardinality({i \in 1..Len(msgs) : msgs[i].role = role})

\* the n of the id NewId("message", n): the message was the n-th created
CreatedAs(id) == id[2]

\* C20 (states): no two stored messages have the same id; there are as many
\* user messages as replies and requests waiting for the API; the user message
\* of every request waiting or answered is stored once, with the text of its
\* body; the reply of every answered request is stored once, with the text of
\* its response, and was created after the request's user message.
C20_EveryMessageOnce ==
    /\ \A i, j \in 1..Len(chatMessages) :
          chatMessages[i].id = chatMessages[j].id => i = j
    /\ CountRole(chatMessages, "user") =
          CountRole(chatMessages, "assistant") + PendingReplies
    /\ \A r \in Slots :
          /\ ask[r].pc # "idle" =>
                /\ Cardinality(PlacesOf(chatMessages, ask[r].userMessageId)) = 1
                /\ \A i \in PlacesOf(chatMessages, ask[r].userMessageId) :
                      /\ chatMessages[i].role = "user"
                      /\ chatMessages[i].content = ask[r].body.message
          /\ ask[r].pc = "done" =>
                /\ Cardinality(PlacesOf(chatMessages, ask[r].assistantMessageId)) = 1
                /\ \A j \in PlacesOf(chatMessages, ask[r].assistantMessageId) :
                      /\ chatMessages[j].role = "assistant"
                      /\ chatMessages[j].content = ask[r].resps[1].response
                      /\ \A i \in PlacesOf(chatMessages, ask[r].userMessageId) :
                            chatMessages[i].timestamp <= chatMessages[j].timestamp
                /\ CreatedAs(ask[r].userMessageId) < CreatedAs(ask[r].assistantMessageId)

\* C20 (steps): the arrival of a request adds one user message, its completion
\* adds one reply, no other step adds a message, and no step removes or
\* changes a stored message.
C20_OnePerStep ==
    LET asked == CountRole(chatMessages, "user")
        replies == CountRole(chatMessages, "assistant")
        arrived == {r \in Slots : ask[r].pc = "idle" /\ ask'[r].pc # "idle"}
        completed == {r \in Slots : ask[r].pc # "done" /\ ask'[r].pc = "done"}
    IN  /\ CountRole(chatMessages', "user") = asked + Cardinality(arrived)
        /\ CountRole(chatMessages', "assistant") = replies + Cardinality(completed)
        /\ Cardinality(arrived) + Cardinality(completed) <= 1
        /\ \A i \in 1..Len(chatMessages) :
              \E j \in 1..Len(chatMessages') : chatMessages'[j] = chatMessages[i]

\* C20: when valid POST /api/ask requests overlap, interleaving at their
\* awaits, no message is lost or duplicated: every completed request has added
\* exactly one user message and one reply, so k completed requests leave k of
\* each, and each request's user message is stored before its reply.
C20_OverlappingRequests == []C20_EveryMessageOnce /\ [][C20_OnePerStep]_vars

\* C20: two requests have overlapped and both are answered: the second arrived
\* while the first waited for the API, and was answered first
C20_Witness ==
    /\ MaxInFlight >= 2
    /\ ask[1].pc = "done" /\ ask[2].pc = "done"
    /\ ask[1].userMessageId = NewId("message", 1)
    /\ ask[2].userMessageId = NewId("message", 2)
    /\ ask[2].assistantMessageId = NewId("message", 3)
    /\ ask[1].assistantMessageId = NewId("message", 4)
    /\ CountRole(chatMessages, "user") = 2
    /\ CountRole(chatMessages, "assistant") = 2


-----------------------------------------------------------------------------
(* Properties of the language of POST /api/tts, under SpecLanguage *)

\* the request t with another value of the field 'language' in its body
WithLanguage(t, l) == [t EXCEPT !.body.language = l]

\* the values of the field 'language' that ttsSchema accepts
AcceptedLanguages == LanguageEnum \cup {Undefined}

\* the values of the field 'language' a client may send
SentLanguages == AcceptedLanguages \cup {"hinglish"}

\* the calls a request has made to Cartesia
CartesiaCalls(t) == {k \in 1..Len(t.calls) : t.calls[k].provider = "cartesia"}

\* the steps of the handler after its first await do the same whatever the
\* field 'language' holds, for the languages of the set
SettlesIgnoreLanguage(t, languages) ==
    \A l \in languages :
        /\ \A buf \in Buffers :
              /\ CartesiaSuccess(WithLanguage(t, l), buf)
                    = WithLanguage(CartesiaSuccess(t, buf), l)
              /\ ElevenLabsSuccess(WithLanguage(t, l), buf)
                    = WithLanguage(ElevenLabsSuccess(t, buf), l)
        /\ \A how \in {"threw", "bodythrew", "nonok"} :
              /\ CartesiaFailed(WithLanguage(t, l), how)
                    = WithLanguage(CartesiaFailed(t, how), l)
              /\ ElevenLabsFailed(WithLanguage(t, l), how)
                    = WithLanguage(ElevenLabsFailed(t, how), l)

\* the step in which the request of slot r arrives does the same whatever the
\* field 'language' holds, for the languages of the set
StartIgnoresLanguage(r, languages) ==
    (tts[r].pc = "idle" /\ tts'[r].pc # "idle") =>
        \A l \in languages :
            TtsHandle(tts[r], WithLanguage(tts'[r], l).body, pronunciationCorrections)
                = WithLanguage(tts'[r], l)

\* C21 (amended, states): the language sent to Cartesia is 'hi' or 'en' and is
\* what detectLanguage makes of the transcript sent with it; the later steps of
\* a request do not read the field 'language'.
C21_LanguageOfTranscript ==
    \A r \in ReqIds :
        /\ \A k \in CartesiaCalls(tts[r]) :
              /\ tts[r].calls[k].language \in {"hi", "en"}
              /\ tts[r].calls[k].language = detectLanguage(tts[r].calls[k].text)
        /\ (tts[r].pc # "idle" /\ ttsSchemaOk(tts[r].body)) =>
              SettlesIgnoreLanguage(tts[r], AcceptedLanguages)

-----------------------------------------------------------------------------
(* Properties of the text of POST /api/tts, under SpecLimit *)

\* the first n characters of a text, the whole text if it is shorter
FirstChars(text, n) ==
    [i \in 1..(IF Len(text) < n THEN Len(text) ELSE n) |-> text[i]]

\* C22: the text handed to a provider is never longer than 1500 characters,
\* and Cartesia and ElevenLabs receive the same text within a request: the
\* cleaned, corrected request text cut to its first 1500 characters.
C22_SameLimitedText ==
    \A r \in ReqIds :
        /\ \A k \in 1..Len(tts[r].calls) :
              /\ Len(tts[r].calls[k].text) <= TtsTextLimit
              /\ tts[r].calls[k].text = tts[r].calls[1].text
        /\ tts[r].calls # <<>> =>
              tts[r].calls[1].text =
                  FirstChars(applyPronunciationCorrections(
                                 cleanTextForSpeech(tts[r].body.text),
                                 pronunciationCorrections),
                             TtsTextLimit)

\* C22: a request with a text longer than the limit has called both providers
\* with a text of exactly the limit
C22_Witness ==
    \E r \in ReqIds :
        /\ tts[r].pc = "done"
        /\ Len(tts[r].body.text) > TtsTextLimit
        /\ Len(tts[r].calls) = 2
        /\ tts[r].calls[2].provider = "elevenlabs"
        /\ Len(tts[r].calls[2].text) = TtsTextLimit


-----------------------------------------------------------------------------
(* Properties of GET /api/college-info, under SpecLookup *)

\* the latest response is one of GET /api/college-info
Looked == httpResp.route = "college-info"

\* a query parameter is present and not the empty string
NonEmpty(param) == param.given /\ Len(param.value) > 0

\* C23 (states): the response to a query with a non-empty search is the result
\* of the search, whatever the category; with no search and a non-empty
\* category the records of the category; with neither the whole store.
C23_SearchThenCategory ==
    Looked =>
        LET category == httpResp.query[1]
            search == httpResp.query[2]
        IN  /\ httpResp.status = 200
            /\ NonEmpty(search) =>
                  httpResp.body = searchCollegeInfo(collegeInfo, search.value)
            /\ (~NonEmpty(search) /\ NonEmpty(category)) =>
                  httpResp.body = getCollegeInfoByCategory(collegeInfo, category.value)
            /\ (~NonEmpty(search) /\ ~NonEmpty(category)) =>
                  httpResp.body = collegeInfo

\* C23 (steps): a request of GET /api/college-info leaves the stores as they
\* are.
C23_LookupReadsOnly ==
    httpResp'.route = "college-info" => UNCHANGED storeVars

\* C23: GET /api/college-info answers a non-empty search with the search
\* result even when a category is given, otherwise a non-empty category with
\* the records of the category, otherwise with the whole fact store, and never
\* changes the fact store.
C23_LookupPrecedence == []C23_SearchThenCategory /\ [][C23_LookupReadsOnly]_vars

\* C23: a query with a search and a category that both select records has been
\* answered with the records of the search, which are not those of the
\* category, after a record was created
C23_Witness ==
    /\ Looked
    /\ NonEmpty(httpResp.query[1]) /\ NonEmpty(httpResp.query[2])
    /\ httpResp.body # <<>>
    /\ getCollegeInfoByCategory(collegeInfo, httpResp.query[1].value) # <<>>
    /\ httpResp.body # getCollegeInfoByCategory(collegeInfo, httpResp.query[1].value)
    /\ CreatedInfos > 0


-----------------------------------------------------------------------------
(* Properties of the hook useVoice, under SpecVoice *)

\* the state of the hook and of its recognizer
listeningVars == <<isListening, transcript, recognition, pending, recognizer>>

\* C24 (steps): a call of startListening with a recognizer and isListening
\* false queues the empty transcript, calls start() once and queues
\* isListening true, or false if start() threw; any other call of it changes
\* nothing and calls nothing.
C24_StartListening ==
    called'.name = "startListening" =>
        IF recognition # Null /\ ~isListening
        THEN /\ pending'.transcript = {<<>>}
             /\ called'.starts = 1 /\ called'.stops = 0
             /\ pending'.isListening = {~called'.threw}
             /\ Latest(pending'.isListening, isListening) = ~called'.threw
             /\ UNCHANGED <<isListening, transcript, recognition>>
        ELSE /\ UNCHANGED listeningVars
             /\ called'.starts = 0 /\ called'.stops = 0

\* C24 (steps): no operation calls start() while isListening is true, or
\* without a recognizer; the recognizer is started by startListening only.
C24_NoStartWhileListening ==
    /\ called'.starts > 0 => ~isListening /\ recognition # Null
    /\ (recognizer' = "started" /\ recognizer # "started") =>
          called'.name = "startListening" /\ called'.starts = 1

\* C24 (steps): a call of stopListening with isListening false changes nothing
\* and does not call stop().
C24_StopListening ==
    (called'.name = "stopListening" /\ ~isListening) =>
        /\ UNCHANGED listeningVars
        /\ called'.stops = 0

\* C24: startListening has an effect only with a recognizer and isListening
\* false: it then clears the transcript, sets isListening true and calls
\* start() once, and sets isListening false again if start() throws; otherwise
\* it changes nothing and does not call start(), so that start() is never
\* called while isListening is true.  stopListening changes nothing and does
\* not call stop() when isListening is false.
C24_ListeningGuards ==
    [][C24_StartListening /\ C24_NoStartWhileListening /\ C24_StopListening]_vars

\* C24: startListening has started the recognizer of a page that shows a
\* transcript and is not listening; the cleared transcript and isListening
\* true wait for the next render
C24_Witness ==
    /\ called = Op("startListening", 1, 0, FALSE)
    /\ recognition = TheRecognition /\ ~isListening
    /\ transcript # <<>>
    /\ recognizer = "started"
    /\ pending.transcript = {<<>>} /\ pending.isListening = {TRUE}

====
